---- MODULE Spec2Model ----
(***************************************************************************)
(* Verification model of the data-transformation scripts of the            *)
(* embuild-analyses repository: the policy-domain classifier and the       *)
(* municipal-projects pipeline (bouwprojecten-gemeenten), the grouped      *)
(* aggregations of the employment, permit and EPC scripts, the JSON        *)
(* export step, the statements of the scripts that create directories and  *)
(* read and write files, the download and choice of the input file of the  *)
(* approvals script (vergunningen-goedkeuringen), its per-municipality     *)
(* monthly series, and the repository tools export_data_repo, scaffold     *)
(* and sync_shared.                                                        *)
(*                                                                         *)
(* Each behaviour models one run of one script; the variable `script`      *)
(* says which.  Character strings that the code slices or splits are       *)
(* sequences of one-character strings.  Fractional numbers are fixed-point *)
(* integers counting thousandths.                                          *)
(***************************************************************************)
EXTENDS Integers, Sequences, FiniteSets, TLC

VARIABLES
    script,        \* which script this run executes
    pc,            \* where the run is: "running", "done", or "raised" (uncaught exception)
    mapping,       \* entries written to POLICY_DOMAIN_MAPPING after its literal was evaluated
    call,          \* the latest direct call of the classifier: arguments and outcome
    probe,         \* the first direct call of the run: arguments and outcome
    projects_map,  \* process_projects: the dict of projects, in insertion order
    nrows,         \* process_projects: rows of df iterated so far
    row,           \* process_projects: what the loop body did with the latest row
    projects,      \* process_projects: the returned list
    ledger,        \* process_projects: history of the rows whose amount was parsed
    all_data,      \* arbeiders-bedienden main: the records of all sheets read so far
    df,            \* the rows of the CSV file a script loaded
    output_files,  \* the series a script exported, by file name
    disk,          \* the content of each destination file that exists
    writer,        \* the progress of the script's write attempts
    dirs,          \* the directories that exist
    step,          \* the statement of the script the run is at
    fetch,         \* the download of the input file: attempts, waits, outcome
    tool,          \* a repository tool's run: arguments, position, the tree it started from
    monthly        \* the per-municipality export: rows kept, groups, municipality_index

vars == <<script, pc, mapping, call, probe, projects_map, nrows, row, projects,
          ledger, all_data, df, output_files, disk, writer, dirs, step, fetch, tool,
          monthly>>

aggVars == <<all_data, df, output_files>>

runVars == <<dirs, step, fetch, tool, monthly>>

exportVars == <<disk, writer, runVars>>

----------------------------------------------------------------------------
(* Generic helpers                                                         *)

SetMin(S) == CHOOSE x \in S : \A y \in S : x <= y

SetMax(S) == CHOOSE x \in S : \A y \in S : x >= y

InSeq(x, s) == \E i \in 1..Len(s) : s[i] = x

----------------------------------------------------------------------------
(* Python values of the two classification keys: None or a str.            *)

None == [isNone |-> TRUE, chars |-> <<>>]

Str(cs) == [isNone |-> FALSE, chars |-> cs]

\* Python truthiness of a key: None and "" are falsy.
Truthy(k) == ~k.isNone /\ k.chars # <<>>

\* Characters str.split() and str.strip() treat as whitespace.
IsWhitespace(c) == c \in {" ", "\t", "\n"}

\* ' ' in s
HasSpace(cs) == \E i \in 1..Len(cs) : cs[i] = " "

\* s.split() is the empty list: s.split()[0] raises IndexError.
SplitIsEmpty(cs) == \A i \in 1..Len(cs) : IsWhitespace(cs[i])

\* s.split()[0] for a string with at least one token.
FirstToken(cs) ==
    LET first == SetMin({i \in 1..Len(cs) : ~IsWhitespace(cs[i])})
        stops == {i \in first..Len(cs) : IsWhitespace(cs[i])}
        last  == IF stops = {} THEN Len(cs) ELSE SetMin(stops) - 1
    IN  SubSeq(cs, first, last)

\* s[:n]
Slice(cs, n) == SubSeq(cs, 1, IF Len(cs) < n THEN Len(cs) ELSE n)

\* s.strip()
Strip(cs) ==
    LET keep == {i \in 1..Len(cs) : ~IsWhitespace(cs[i])}
    IN  IF keep = {} THEN <<>> ELSE SubSeq(cs, SetMin(keep), SetMax(keep))

----------------------------------------------------------------------------
(* category_keywords.py                                                    *)

\* The literal of POLICY_DOMAIN_MAPPING as (key, category) items.
PolicyDomainItems == {
    <<<<"0","2"," ","Z","i","c","h"," ","v","e","r","p","l","a","a","t","s","e","n"," ","e","n"," ","m","o","b","i","l","i","t","e","i","t">>, "wegenbouw">>,
    <<<<"0","2">>, "wegenbouw">>,
    <<<<"0","3","1"," ","W","a","t","e","r","b","e","h","e","e","r">>, "riolering">>,
    <<<<"0","3","1">>, "riolering">>,
    <<<<"0","3"," ","N","a","t","u","u","r"," ","e","n"," ","m","i","l","i","e","u","b","e","h","e","e","r">>, "groen">>,
    <<<<"0","3">>, "groen">>,
    <<<<"0","6","8"," ","G","r","o","e","n","e"," ","r","u","i","m","t","e">>, "groen">>,
    <<<<"0","6","8">>, "groen">>,
    <<<<"0","3","4"," ","B","e","s","c","h","e","r","m","i","n","g"," ","v","a","n"," ","b","i","o","d","i","v","e","r","s","i","t","e","i","t",","," ","l","a","n","d","s","c","h","a","p","p","e","n"," ","e","n"," ","b","o","d","e","m">>, "groen">>,
    <<<<"0","3","4">>, "groen">>,
    <<<<"0","3","0"," ","A","f","v","a","l","-"," ","e","n"," ","m","a","t","e","r","i","a","l","e","n","b","e","h","e","e","r">>, "groen">>,
    <<<<"0","3","0">>, "groen">>,
    <<<<"0","3","2"," ","V","e","r","m","i","n","d","e","r","i","n","g"," ","v","a","n"," ","d","e"," ","m","i","l","i","e","u","v","e","r","o","n","t","r","e","i","n","i","g","i","n","g">>, "groen">>,
    <<<<"0","3","2">>, "groen">>,
    <<<<"0","3","5"," ","K","l","i","m","a","a","t"," ","e","n"," ","e","n","e","r","g","i","e">>, "gebouwen">>,
    <<<<"0","3","5">>, "gebouwen">>,
    <<<<"0","3","8","/","9"," ","O","v","e","r","i","g","e"," ","m","i","l","i","e","u","b","e","s","c","h","e","r","m","i","n","g">>, "groen">>,
    <<<<"0","3","8">>, "groen">>,
    <<<<"0","3","9">>, "groen">>,
    <<<<"0","9","9"," ","B","e","g","r","a","a","f","p","l","a","a","t","s","e","n",","," ","c","r","e","m","a","t","o","r","i","a"," ","e","n"," ","l","i","j","k","b","e","z","o","r","g","i","n","g">>, "groen">>,
    <<<<"0","9","9">>, "groen">>,
    <<<<"0","7"," ","C","u","l","t","u","u","r"," ","e","n"," ","v","r","i","j","e"," ","t","i","j","d">>, "cultuur">>,
    <<<<"0","7">>, "cultuur">>,
    <<<<"0","7","0"," ","C","u","l","t","u","r","e","l","e"," ","i","n","s","t","e","l","l","i","n","g","e","n">>, "cultuur">>,
    <<<<"0","7","0">>, "cultuur">>,
    <<<<"0","7","1"," ","E","v","e","n","e","m","e","n","t","e","n">>, "cultuur">>,
    <<<<"0","7","1">>, "cultuur">>,
    <<<<"0","7","2"," ","E","r","f","g","o","e","d">>, "cultuur">>,
    <<<<"0","7","2">>, "cultuur">>,
    <<<<"0","7","3"," ","O","v","e","r","i","g"," ","k","u","n","s","t","-"," ","e","n"," ","c","u","l","t","u","u","r","b","e","l","e","i","d">>, "cultuur">>,
    <<<<"0","7","3">>, "cultuur">>,
    <<<<"0","7","4"," ","S","p","o","r","t">>, "sport">>,
    <<<<"0","7","4">>, "sport">>,
    <<<<"0","7","5"," ","J","e","u","g","d">>, "zorg">>,
    <<<<"0","7","5">>, "zorg">>,
    <<<<"0","7","9"," ","E","r","e","d","i","e","n","s","t","e","n"," ","e","n"," ","n","i","e","t","-","c","o","n","f","e","s","s","i","o","n","e","l","e"," ","l","e","v","e","n","s","b","e","s","c","h","o","u","w","e","l","i","j","k","e"," ","g","e","m","e","e","n","s","c","h","a","p","p","e","n">>, "cultuur">>,
    <<<<"0","7","9">>, "cultuur">>,
    <<<<"0","5","2"," ","T","o","e","r","i","s","m","e">>, "cultuur">>,
    <<<<"0","5","2">>, "cultuur">>,
    <<<<"0","8"," ","L","e","r","e","n"," ","e","n"," ","o","n","d","e","r","w","i","j","s">>, "scholenbouw">>,
    <<<<"0","8">>, "scholenbouw">>,
    <<<<"0","8","0"," ","B","a","s","i","s","o","n","d","e","r","w","i","j","s">>, "scholenbouw">>,
    <<<<"0","8","0">>, "scholenbouw">>,
    <<<<"0","8","1"," ","S","e","c","u","n","d","a","i","r"," ","o","n","d","e","r","w","i","j","s">>, "scholenbouw">>,
    <<<<"0","8","1">>, "scholenbouw">>,
    <<<<"0","8","2"," ","D","e","e","l","t","i","j","d","s"," ","k","u","n","s","t","o","n","d","e","r","w","i","j","s">>, "scholenbouw">>,
    <<<<"0","8","2">>, "scholenbouw">>,
    <<<<"0","8","3"," ","H","o","g","e","r"," ","e","n"," ","V","o","l","w","a","s","s","e","n","e","n","o","n","d","e","r","w","i","j","s">>, "scholenbouw">>,
    <<<<"0","8","3">>, "scholenbouw">>,
    <<<<"0","8","6"," ","O","n","d","e","r","s","t","e","u","n","e","n","d","e"," ","d","i","e","n","s","t","e","n"," ","v","o","o","r"," ","h","e","t"," ","o","n","d","e","r","w","i","j","s">>, "scholenbouw">>,
    <<<<"0","8","6">>, "scholenbouw">>,
    <<<<"0","8","7","/","8"," ","A","l","g","e","m","e","e","n"," ","o","n","d","e","r","w","i","j","s","b","e","l","e","i","d">>, "scholenbouw">>,
    <<<<"0","8","7">>, "scholenbouw">>,
    <<<<"0","8","8">>, "scholenbouw">>,
    <<<<"0","9"," ","Z","o","r","g"," ","e","n"," ","o","p","v","a","n","g">>, "zorg">>,
    <<<<"0","9">>, "zorg">>,
    <<<<"0","9","0"," ","S","o","c","i","a","a","l"," ","b","e","l","e","i","d">>, "zorg">>,
    <<<<"0","9","0">>, "zorg">>,
    <<<<"0","9","1"," ","Z","i","e","k","t","e","-"," ","e","n"," ","i","n","v","a","l","i","d","i","t","e","i","t">>, "zorg">>,
    <<<<"0","9","1">>, "zorg">>,
    <<<<"0","9","3"," ","S","o","c","i","a","l","e"," ","h","u","i","s","v","e","s","t","i","n","g">>, "zorg">>,
    <<<<"0","9","3">>, "zorg">>,
    <<<<"0","9","4"," ","G","e","z","i","n"," ","e","n"," ","k","i","n","d","e","r","e","n">>, "zorg">>,
    <<<<"0","9","4">>, "zorg">>,
    <<<<"0","9","5"," ","O","u","d","e","r","e","n">>, "zorg">>,
    <<<<"0","9","5">>, "zorg">>,
    <<<<"0","9","8"," ","D","i","e","n","s","t","v","e","r","l","e","n","i","n","g"," ","i","n","z","a","k","e"," ","v","o","l","k","s","g","e","z","o","n","d","h","e","i","d">>, "zorg">>,
    <<<<"0","9","8">>, "zorg">>,
    <<<<"0","4"," ","V","e","i","l","i","g","h","e","i","d","s","z","o","r","g">>, "veiligheid">>,
    <<<<"0","4">>, "veiligheid">>,
    <<<<"0","4","0"," ","P","o","l","i","t","i","e","d","i","e","n","s","t","e","n">>, "veiligheid">>,
    <<<<"0","4","0">>, "veiligheid">>,
    <<<<"0","4","1"," ","B","r","a","n","d","w","e","e","r">>, "veiligheid">>,
    <<<<"0","4","1">>, "veiligheid">>,
    <<<<"0","4","2","/","4"," ","O","v","e","r","i","g","e"," ","h","u","l","p","d","i","e","n","s","t","e","n">>, "veiligheid">>,
    <<<<"0","4","2">>, "veiligheid">>,
    <<<<"0","4","5","/","9"," ","O","v","e","r","i","g","e"," ","e","l","e","m","e","n","t","e","n"," ","v","a","n"," ","o","p","e","n","b","a","r","e"," ","o","r","d","e"," ","e","n"," ","v","e","i","l","i","g","h","e","i","d">>, "veiligheid">>,
    <<<<"0","4","5">>, "veiligheid">>,
    <<<<"0","6"," ","W","o","n","e","n"," ","e","n"," ","r","u","i","m","t","e","l","i","j","k","e"," ","o","r","d","e","n","i","n","g">>, "gebouwen">>,
    <<<<"0","6">>, "gebouwen">>,
    <<<<"0","6","0"," ","R","u","i","m","t","e","l","i","j","k","e"," ","p","l","a","n","n","i","n","g">>, "ruimtelijke-ordening">>,
    <<<<"0","6","0">>, "ruimtelijke-ordening">>,
    <<<<"0","6","1"," ","G","e","b","i","e","d","s","o","n","t","w","i","k","k","e","l","i","n","g">>, "ruimtelijke-ordening">>,
    <<<<"0","6","1">>, "ruimtelijke-ordening">>,
    <<<<"0","6","7"," ","S","t","r","a","a","t","v","e","r","l","i","c","h","t","i","n","g">>, "verlichting">>,
    <<<<"0","6","7">>, "verlichting">>,
    <<<<"0","6","2"," ","W","o","o","n","b","e","l","e","i","d">>, "gebouwen">>,
    <<<<"0","6","2">>, "gebouwen">>,
    <<<<"0","6","3"," ","W","a","t","e","r","v","o","o","r","z","i","e","n","i","n","g">>, "gebouwen">>,
    <<<<"0","6","3">>, "gebouwen">>,
    <<<<"0","6","4"," ","E","l","e","k","t","r","i","c","i","t","e","i","t","s","v","o","o","r","z","i","e","n","i","n","g">>, "gebouwen">>,
    <<<<"0","6","4">>, "gebouwen">>,
    <<<<"0","6","5"," ","G","a","s","v","o","o","r","z","i","e","n","i","n","g">>, "gebouwen">>,
    <<<<"0","6","5">>, "gebouwen">>,
    <<<<"0","6","6"," ","C","o","m","m","u","n","i","c","a","t","i","e","v","o","o","r","z","i","e","n","i","n","g","e","n">>, "gebouwen">>,
    <<<<"0","6","6">>, "gebouwen">>,
    <<<<"0","6","9"," ","O","v","e","r","i","g","e"," ","n","u","t","s","v","o","o","r","z","i","e","n","i","n","g","e","n">>, "gebouwen">>,
    <<<<"0","6","9">>, "gebouwen">>,
    <<<<"0","0"," ","A","l","g","e","m","e","n","e"," ","f","i","n","a","n","c","i","e","r","i","n","g">>, "werking">>,
    <<<<"0","0">>, "werking">>,
    <<<<"0","1","0"," ","P","o","l","i","t","i","e","k","e"," ","o","r","g","a","n","e","n">>, "werking">>,
    <<<<"0","1","0">>, "werking">>,
    <<<<"0","1","1"," ","A","l","g","e","m","e","n","e"," ","d","i","e","n","s","t","e","n">>, "werking">>,
    <<<<"0","1","1">>, "werking">>,
    <<<<"0","1","3"," ","A","d","m","i","n","i","s","t","r","a","t","i","e","v","e"," ","d","i","e","n","s","t","v","e","r","l","e","n","i","n","g">>, "werking">>,
    <<<<"0","1","3">>, "werking">>,
    <<<<"0","1","5"," ","I","n","t","e","r","n","a","t","i","o","n","a","l","e"," ","s","a","m","e","n","w","e","r","k","i","n","g">>, "werking">>,
    <<<<"0","1","5">>, "werking">>,
    <<<<"0","1","6"," ","H","u","l","p"," ","a","a","n"," ","h","e","t"," ","b","u","i","t","e","n","l","a","n","d">>, "werking">>,
    <<<<"0","1","6">>, "werking">>,
    <<<<"0","1","7"," ","B","i","n","n","e","n","g","e","m","e","e","n","t","e","l","i","j","k","e"," ","d","e","c","e","n","t","r","a","l","i","s","a","t","i","e">>, "werking">>,
    <<<<"0","1","7">>, "werking">>,
    <<<<"0","1","9"," ","O","v","e","r","i","g"," ","a","l","g","e","m","e","e","n"," ","b","e","s","t","u","u","r">>, "werking">>,
    <<<<"0","1","9">>, "werking">>,
    <<<<"0","5","0"," ","H","a","n","d","e","l"," ","e","n"," ","m","i","d","d","e","n","s","t","a","n","d">>, "werking">>,
    <<<<"0","5","0">>, "werking">>,
    <<<<"0","5","1"," ","N","i","j","v","e","r","h","e","i","d">>, "werking">>,
    <<<<"0","5","1">>, "werking">>,
    <<<<"0","5","3"," ","L","a","n","d","-",","," ","t","u","i","n","-"," ","e","n"," ","b","o","s","b","o","u","w">>, "werking">>,
    <<<<"0","5","3">>, "werking">>,
    <<<<"0","5","4"," ","V","i","s","v","a","n","g","s","t">>, "werking">>,
    <<<<"0","5","4">>, "werking">>,
    <<<<"0","5","5"," ","W","e","r","k","g","e","l","e","g","e","n","h","e","i","d">>, "werking">>,
    <<<<"0","5","5">>, "werking">>,
    <<<<"0","5","9"," ","O","v","e","r","i","g","e"," ","e","c","o","n","o","m","i","s","c","h","e"," ","z","a","k","e","n">>, "werking">>,
    <<<<"0","5","9">>, "werking">>

}

\* The dict the literal builds.
POLICY_DOMAIN_MAPPING ==
    [k \in {it[1] : it \in PolicyDomainItems} |->
        (CHOOSE it \in PolicyDomainItems : it[1] = k)[2]]

\* A classifier outcome: the returned list, or an uncaught exception.
Returned(cats) == [raised |-> FALSE, value |-> cats]

Raised == [raised |-> TRUE, value |-> <<>>]

\* if key in POLICY_DOMAIN_MAPPING: category = ...[key];
\*     if category and category not in categories: categories.append(category)
AppendMatch(categories, m, key) ==
    IF key \in DOMAIN m
    THEN LET category == m[key]
         IN  IF category # "" /\ ~InSeq(category, categories)
             THEN Append(categories, category)
             ELSE categories
    ELSE categories

\* s.split()[0] if ' ' in s else s[:n]
KeyPrefix(cs, n) == IF HasSpace(cs) THEN FirstToken(cs) ELSE Slice(cs, n)

\* The prefix expression raises IndexError: ' ' in s, and s.split() is empty.
KeyPrefixRaises(cs) == HasSpace(cs) /\ SplitIsEmpty(cs)

\* Lines 313-324 for the secondary key and 329-340 for the primary key: the
\* exact lookup, then the prefix lookup when the list is still empty.
LookupKey(categories, m, key, width) ==
    LET exact == AppendMatch(categories, m, key.chars)
    IN  IF exact = <<>> /\ Truthy(key)
        THEN IF KeyPrefixRaises(key.chars)
             THEN Raised
             ELSE Returned(AppendMatch(exact, m, KeyPrefix(key.chars, width)))
        ELSE Returned(exact)

\* Widths of the prefix of a key that holds no space.
SubdomainPrefixLen == 3

DomainPrefixLen == 2

\* The classifier with the two keys consulted in the other order.
DomainFirstClassify(m, beleidsdomein, beleidssubdomein) ==
    IF ~Truthy(beleidsdomein)
    THEN Returned(<<"overige">>)
    ELSE LET dom == LookupKey(<<>>, m, beleidsdomein, DomainPrefixLen)
         IN  IF dom.raised THEN Raised
             ELSE LET sub == IF dom.value = <<>> /\ Truthy(beleidssubdomein)
                             THEN LookupKey(dom.value, m, beleidssubdomein,
                                            SubdomainPrefixLen)
                             ELSE dom
                  IN  IF sub.raised THEN Raised
                      ELSE Returned(IF sub.value # <<>> THEN sub.value
                                    ELSE <<"overige">>)

\* The classifier without the guard on the primary key.
UnguardedClassify(m, beleidsdomein, beleidssubdomein) ==
    LET sub == IF Truthy(beleidssubdomein)
               THEN LookupKey(<<>>, m, beleidssubdomein, SubdomainPrefixLen)
               ELSE Returned(<<>>)
    IN  IF sub.raised THEN Raised
        ELSE LET dom == IF sub.value = <<>>
                        THEN LookupKey(sub.value, m, beleidsdomein, DomainPrefixLen)
                        ELSE sub
             IN  IF dom.raised THEN Raised
                 ELSE Returned(IF dom.value # <<>> THEN dom.value ELSE <<"overige">>)

\* classify_project_by_policy_domain(beleidsdomein, beleidssubdomein=None),
\* reading the dict m.
classify_project_by_policy_domain(m, beleidsdomein, beleidssubdomein) ==
    IF ~Truthy(beleidsdomein)
    THEN Returned(<<"overige">>)
    ELSE LET sub == IF Truthy(beleidssubdomein)
                    THEN LookupKey(<<>>, m, beleidssubdomein, SubdomainPrefixLen)
                    ELSE Returned(<<>>)
         IN  IF sub.raised THEN Raised
             ELSE LET dom == IF sub.value = <<>>
                             THEN LookupKey(sub.value, m, beleidsdomein,
                                            DomainPrefixLen)
                             ELSE sub
                  IN  IF dom.raised THEN Raised
                      ELSE Returned(IF dom.value # <<>> THEN dom.value
                                    ELSE <<"overige">>)

----------------------------------------------------------------------------
(* Numbers.  A float is the integer count of its thousandths.              *)

Milli == 10 * 10 * 10

Abs(x) == IF x < 0 THEN -x ELSE x

\* int(x): truncation toward zero.
PyInt(x) == IF x >= 0 THEN x - (x % Milli) ELSE -((-x) - ((-x) % Milli))

\* The multiple of q nearest to x, an exact tie going to the even multiple.
RoundHalfEven(x, q) ==
    LET lo == x - (x % q)
        r  == x % q
    IN  IF 2 * r < q THEN lo
        ELSE IF 2 * r > q THEN lo + q
        ELSE IF (lo \div q) % 2 = 0 THEN lo ELSE lo + q

\* round(x, 2) and round(x, 0)
Round2(x) == RoundHalfEven(x, Milli \div 100)

Round0(x) == RoundHalfEven(x, Milli)

RECURSIVE SeqSum(_)
SeqSum(s) == IF s = <<>> THEN 0 ELSE Head(s) + SeqSum(Tail(s))

----------------------------------------------------------------------------
(* process_project_details.py: cells of data-54.csv and their parsing      *)

\* A cell pandas read: NaN (an empty cell), a number, or text.
NaN == [kind |-> "nan", num |-> 0, chars |-> <<>>]

Num(x) == [kind |-> "num", num |-> x, chars |-> <<>>]

Text(cs) == [kind |-> "str", num |-> 0, chars |-> cs]

IsDigit(c) == c \in {"0", "1", "2", "3", "4", "5", "6", "7", "8", "9"}

DigitValue(c) ==
    CASE c = "0" -> 0 [] c = "1" -> 1 [] c = "2" -> 2 [] c = "3" -> 3
      [] c = "4" -> 4 [] c = "5" -> 5 [] c = "6" -> 6 [] c = "7" -> 7
      [] c = "8" -> 8 [] c = "9" -> 9

RECURSIVE DigitsValue(_)
DigitsValue(ds) ==
    IF ds = <<>> THEN 0
    ELSE 10 * DigitsValue(SubSeq(ds, 1, Len(ds) - 1)) + DigitValue(ds[Len(ds)])

\* s.replace(a, '') and s.replace(a, b) for one-character a and b.
RemoveChar(cs, a) == SelectSeq(cs, LAMBDA c : c # a)

ReplaceChar(cs, a, b) == [i \in 1..Len(cs) |-> IF cs[i] = a THEN b ELSE cs[i]]

\* float(s) for a decimal literal [sign] digits [. digits] of at most three
\* decimals; ok is FALSE where float() raises ValueError.  Literals with an
\* exponent, "inf", "nan" or underscores are not among the cells of the runs.
PyFloat(cs) ==
    LET signed == cs # <<>> /\ Head(cs) \in {"-", "+"}
        body   == IF signed THEN Tail(cs) ELSE cs
        dots   == {i \in 1..Len(body) : body[i] = "."}
        dot    == IF dots = {} THEN Len(body) + 1 ELSE SetMin(dots)
        whole  == SubSeq(body, 1, dot - 1)
        frac   == SubSeq(body, dot + 1, Len(body))
        ok     == /\ Cardinality(dots) <= 1
                  /\ Len(whole) + Len(frac) >= 1
                  /\ Len(frac) <= 3
                  /\ \A i \in 1..Len(whole) : IsDigit(whole[i])
                  /\ \A i \in 1..Len(frac) : IsDigit(frac[i])
        scale  == CASE Len(frac) = 0 -> Milli
                    [] Len(frac) = 1 -> Milli \div 10
                    [] Len(frac) = 2 -> Milli \div 100
                    [] OTHER -> 1
        mag    == DigitsValue(whole) * Milli + DigitsValue(frac) * scale
    IN  IF ok
        THEN [ok |-> TRUE, value |-> IF signed /\ Head(cs) = "-" THEN -mag ELSE mag]
        ELSE [ok |-> FALSE, value |-> 0]

\* A variant of parse_dutch_number whose except clause returns 1.
ParseUnparseableAsOne(value) ==
    IF value.kind = "nan" THEN 0
    ELSE IF value.kind = "num" THEN value.num
    ELSE LET amount_str == ReplaceChar(RemoveChar(Strip(value.chars), "."), ",", ".")
             parsed     == PyFloat(amount_str)
         IN  IF parsed.ok THEN parsed.value ELSE Milli

\* parse_dutch_number(value)
parse_dutch_number(value) ==
    IF value.kind = "nan" THEN 0
    ELSE IF value.kind = "num" THEN value.num
    ELSE LET amount_str == ReplaceChar(RemoveChar(Strip(value.chars), "."), ",", ".")
             parsed     == PyFloat(amount_str)
         IN  IF parsed.ok THEN parsed.value ELSE 0

----------------------------------------------------------------------------
(* process_project_details.py: process_projects                            *)

\* nis_to_name of load_nis_lookups, for the municipalities of the runs.
nis_to_name == (11001 :> "Aartselaar") @@ (11002 :> "Antwerpen")

\* dict.get(key, default) on a function.
Get(f, key, default) == IF key \in DOMAIN f THEN f[key] ELSE default

\* Index of the project with this key in the insertion-ordered dict, 0 if none.
KeyIndex(pm, project_key) ==
    LET hits == {i \in 1..Len(pm) : pm[i].project_key = project_key}
    IN  IF hits = {} THEN 0 ELSE SetMin(hits)

\* A variant of lines 289-306 that stores the row's amount as the amount of
\* its fiscal year instead of adding it.
OverwriteYearly(pm, municipality_name, nis_code, ac_code, beleidsdomein, beleidssubdomein, categories, amount, fiscal_year) ==
    LET project_key == <<municipality_name, ac_code>>
        created == IF KeyIndex(pm, project_key) = 0
                   THEN Append(pm, [project_key      |-> project_key,
                                    municipality     |-> municipality_name,
                                    nis_code         |-> nis_code,
                                    ac_code          |-> ac_code,
                                    beleidsdomein    |-> beleidsdomein,
                                    beleidssubdomein |-> beleidssubdomein,
                                    categories       |-> categories,
                                    total_amount     |-> 0,
                                    yearly_amounts   |-> <<>>])
                   ELSE pm
        i   == KeyIndex(created, project_key)
        old == created[i]
    IN  [created EXCEPT ![i] =
            [old EXCEPT !.total_amount = old.total_amount + amount,
                        !.yearly_amounts = (fiscal_year :> amount) @@ old.yearly_amounts]]

\* Lines 289-306: create the project on the first row of its key, then add
\* the row's amount to total_amount and to yearly_amounts[fiscal_year].
Accumulate(pm, municipality_name, nis_code, ac_code, beleidsdomein, beleidssubdomein, categories, amount, fiscal_year) ==
    LET project_key == <<municipality_name, ac_code>>
        created == IF KeyIndex(pm, project_key) = 0
                   THEN Append(pm, [project_key      |-> project_key,
                                    municipality     |-> municipality_name,
                                    nis_code         |-> nis_code,
                                    ac_code          |-> ac_code,
                                    beleidsdomein    |-> beleidsdomein,
                                    beleidssubdomein |-> beleidssubdomein,
                                    categories       |-> categories,
                                    total_amount     |-> 0,
                                    yearly_amounts   |-> <<>>])
                   ELSE pm
        i   == KeyIndex(created, project_key)
        old == created[i]
    IN  [created EXCEPT ![i] =
            [old EXCEPT !.total_amount = old.total_amount + amount,
                        !.yearly_amounts =
                            (fiscal_year :> (Get(old.yearly_amounts, fiscal_year, 0)
                                             + amount)) @@ old.yearly_amounts]]

\* A variant of lines 308-316 that converts the amounts with int().
TruncatedProjects(pm) ==
    [i \in 1..Len(pm) |->
        [pm[i] EXCEPT !.total_amount = PyInt(pm[i].total_amount),
                      !.yearly_amounts =
                          [k \in DOMAIN pm[i].yearly_amounts |->
                              PyInt(pm[i].yearly_amounts[k])]]]

\* Lines 308-316: the list of projects with the amounts rounded to 2 decimals.
RoundedProjects(pm) ==
    [i \in 1..Len(pm) |->
        [pm[i] EXCEPT !.total_amount = Round2(pm[i].total_amount),
                      !.yearly_amounts =
                          [k \in DOMAIN pm[i].yearly_amounts |->
                              Round2(pm[i].yearly_amounts[k])]]]

\* No cell: the row was left before its Uitgave cell was read.
NoCell == [kind |-> "none", num |-> 0, chars |-> <<>>]

\* What the loop body did with a row.
RowOutcome(status, beleidsdomein, beleidssubdomein, categories, amount) ==
    [status |-> status, beleidsdomein |-> beleidsdomein,
     beleidssubdomein |-> beleidssubdomein, categories |-> categories,
     amount |-> amount, uitgave |-> NoCell]

\* The outcome of a row whose Uitgave cell was read (line 272).
WithUitgave(outcome, cell) == [outcome EXCEPT !.uitgave = cell]

NoRow == RowOutcome("none", None, None, <<>>, 0)

\* No write attempt: no payload, no destination reached, no open handle.
NoWriter == [data |-> <<>>, file |-> 0, handle |-> "closed", left |-> <<>>,
             previous |-> <<>>]

\* History of the rows that reached parse_dutch_number: the sum of the parsed
\* amounts, and the rows that passed `amount <= 0`, in df order.
NoLedger == [measured |-> 0, accepted |-> <<>>]

\* No download was started.
NoFetch ==
    [env |-> [override |-> FALSE, url |-> "none", local |-> {}], phase |-> "none",
     attempt |-> 0, retry_delay |-> 0, slept |-> <<>>, requests |-> "none",
     curl |-> "none", download |-> "none", error |-> "none", input_file |-> "none",
     read |-> "none"]

\* No repository tool is running.
NoTool == [phase |-> "none"]

\* No per-municipality export is under way.
NoMonthly == [dtype |-> "none", rows |-> <<>>, groups |-> <<>>, municipality_index |-> <<>>]

----------------------------------------------------------------------------
(* Inputs of the runs                                                      *)

\* Rows of data-54.csv iterated by one run of process_projects.
MaxRows == 2

\* Key values handed to the classifier directly.
Keys == {
    None,
    Str(<<>>),
    Str(<<" ">>),
    Str(<<"0","7","4"," ","S","p","o","r","t">>),
    Str(<<"0","7","4"," ","S","p","o","r","t","h","a","l">>),
    Str(<<"0","7","4","1">>),
    Str(<<"0","6"," ","W","o","n","e","n">>),
    Str(<<"9","9"," ","O","n","b","e","k","e","n","d">>),
    Str(<<" ","0","2">>),
    Str(<<"0","2","\t","X">>)
}

\* Cells of the columns NIS-code, Beleidsdomein, Beleidssubdomein, Uitgave
\* and Boekjaar, and the codes extract_code_description finds in the column
\* Actie totaaloverzicht ("" when it finds no code or no short description).
NisCells == {NaN, Num(11001), Num(99999)}

DomainCells == {
    NaN,
    Text(<<" ">>),
    Text(<<"0","6"," ","W","o","n","e","n"," ">>),
    Text(<<"9","9"," ","O","n","b","e","k","e","n","d">>)
}

SubdomainCells == {
    NaN,
    Text(<<>>),
    Text(<<"0","7","4"," ","S","p","o","r","t">>)
}

ActionCodes == {"", "AC1", "AC2"}

UitgaveCells == {
    NaN,
    Num(-Milli),
    Text(<<"n","b">>),
    Text(<<"2">>),
    Text(<<"1",".","2","0","0",",","5","0","4">>)
}

FiscalYears == {2026, 2027}

----------------------------------------------------------------------------
(* Runs                                                                    *)

\* A recorded call.  `again` marks a call made after the first one with the first
\* one's arguments; `others` (on the first call) that a call with other
\* arguments was made since.
CallRecord(d, s, outcome, again, others) ==
    [made |-> TRUE, beleidsdomein |-> d, beleidssubdomein |-> s,
     outcome |-> outcome, again |-> again, others |-> others]

NoCall == [made |-> FALSE, beleidsdomein |-> None, beleidssubdomein |-> None,
           outcome |-> Returned(<<>>), again |-> FALSE, others |-> FALSE]

SameArguments(c, d, s) == c.made /\ c.beleidsdomein = d /\ c.beleidssubdomein = s

\* The dict as the running module sees it: the literal plus later writes.
MappingNow ==
    IF DOMAIN mapping = {} THEN POLICY_DOMAIN_MAPPING
    ELSE mapping @@ POLICY_DOMAIN_MAPPING

InitFor(scripts) ==
    /\ script \in scripts
    /\ pc = "running"
    /\ mapping = <<>>
    /\ call = NoCall
    /\ probe = NoCall
    /\ projects_map = <<>>
    /\ nrows = 0
    /\ row = NoRow
    /\ projects = <<>>
    /\ ledger = NoLedger
    /\ all_data = <<>>
    /\ df = <<>>
    /\ output_files = <<>>
    /\ disk = <<>>
    /\ writer = NoWriter
    /\ dirs = {}
    /\ step = 0
    /\ fetch = NoFetch
    /\ tool = NoTool
    /\ monthly = NoMonthly

\* A call that also stores its result in the dict under the primary key.
ClassifyCallCaching ==
    /\ script = "classifier"
    /\ LET m == MappingNow
       IN  \E d \in Keys, s \in Keys :
             LET outcome == classify_project_by_policy_domain(m, d, s)
             IN  /\ call' = CallRecord(d, s, outcome, SameArguments(probe, d, s),
                                        FALSE)
                 /\ probe' = IF ~probe.made
                             THEN CallRecord(d, s, outcome, FALSE, FALSE)
                             ELSE IF SameArguments(probe, d, s) THEN probe
                             ELSE [probe EXCEPT !.others = TRUE]
                 /\ mapping' = IF outcome.raised \/ ~Truthy(d) THEN mapping
                               ELSE (d.chars :> outcome.value[1]) @@ mapping
    /\ UNCHANGED <<script, pc, projects_map, nrows, row, projects, ledger, aggVars,
                   exportVars>>

\* One direct call of classify_project_by_policy_domain, with any two keys.
\* The function reads the module-level dict and assigns nothing outside its
\* local variables.
ClassifyCall ==
    /\ script = "classifier"
    /\ LET m == MappingNow
       IN  \E d \in Keys, s \in Keys :
             LET outcome == classify_project_by_policy_domain(m, d, s)
             IN  /\ call' = CallRecord(d, s, outcome, SameArguments(probe, d, s),
                                        FALSE)
                 /\ probe' = IF ~probe.made
                             THEN CallRecord(d, s, outcome, FALSE, FALSE)
                             ELSE IF SameArguments(probe, d, s) THEN probe
                             ELSE [probe EXCEPT !.others = TRUE]
    /\ UNCHANGED <<script, pc, mapping, projects_map, nrows, row, projects, ledger,
                   aggVars, exportVars>>

\* The loop body ends with `continue`.
SkipRow(outcome) ==
    /\ row' = outcome
    /\ nrows' = nrows + 1
    /\ ledger' = IF outcome.status = "skipped_amount"
                 THEN [ledger EXCEPT !.measured = @ + outcome.amount]
                 ELSE ledger
    /\ UNCHANGED <<script, pc, mapping, call, probe, projects_map, projects, aggVars,
                   exportVars>>

\* The loop body raises: the exception leaves process_projects and main.
RaiseInRow(outcome) ==
    /\ row' = outcome
    /\ nrows' = nrows + 1
    /\ pc' = "raised"
    /\ UNCHANGED <<script, mapping, call, probe, projects_map, projects, ledger,
                   aggVars, exportVars>>

\* Lines 242-306: the body of `for idx, row in df.iterrows()` for one row.
ProcessRow ==
    /\ script = "projects"
    /\ pc = "running"
    /\ nrows < MaxRows
    /\ \E nis \in NisCells :
         IF nis.kind = "nan"
         THEN SkipRow(RowOutcome("skipped_no_nis", None, None, <<>>, 0))
         ELSE IF nis.num \notin DOMAIN nis_to_name
         THEN SkipRow(RowOutcome("skipped_no_municipality", None, None, <<>>, 0))
         ELSE \E dcell \in DomainCells :
           IF dcell.kind # "str"
           THEN RaiseInRow(RowOutcome("raised_beleidsdomein", None, None, <<>>, 0))
           ELSE \E scell \in SubdomainCells :
             IF scell.kind # "str"
             THEN RaiseInRow(RowOutcome("raised_beleidssubdomein",
                                        Str(Strip(dcell.chars)), None, <<>>, 0))
             ELSE
               LET beleidsdomein    == Str(Strip(dcell.chars))
                   beleidssubdomein == Str(Strip(scell.chars))
               IN  IF ~Truthy(beleidsdomein)
                   THEN SkipRow(RowOutcome("skipped_no_policy", beleidsdomein,
                                           beleidssubdomein, <<>>, 0))
                   ELSE \E ac_code \in ActionCodes :
                     IF ac_code = ""
                     THEN SkipRow(RowOutcome("skipped_no_action", beleidsdomein,
                                             beleidssubdomein, <<>>, 0))
                     ELSE \E ucell \in UitgaveCells :
                       LET amount == parse_dutch_number(ucell)
                       IN  IF amount <= 0
                           THEN SkipRow(WithUitgave(
                                    RowOutcome("skipped_amount", beleidsdomein,
                                               beleidssubdomein, <<>>, amount),
                                    ucell))
                           ELSE \E fiscal_year \in FiscalYears :
                             LET outcome == classify_project_by_policy_domain(
                                                MappingNow, beleidsdomein,
                                                beleidssubdomein)
                             IN  IF outcome.raised
                                 THEN RaiseInRow(WithUitgave(
                                          RowOutcome("raised_classify", beleidsdomein,
                                                     beleidssubdomein, <<>>, amount),
                                          ucell))
                                 ELSE
                                   /\ projects_map' =
                                        Accumulate(projects_map, nis_to_name[nis.num],
                                                   nis.num, ac_code, beleidsdomein,
                                                   beleidssubdomein, outcome.value,
                                                   amount, fiscal_year)
                                   /\ row' = WithUitgave(
                                               RowOutcome("accepted", beleidsdomein,
                                                          beleidssubdomein,
                                                          outcome.value, amount),
                                               ucell)
                                   /\ nrows' = nrows + 1
                                   /\ ledger' =
                                        [measured |-> ledger.measured + amount,
                                         accepted |-> Append(ledger.accepted,
                                            [project_key |-> <<nis_to_name[nis.num],
                                                               ac_code>>,
                                             fiscal_year |-> fiscal_year,
                                             amount      |-> amount])]
                                   /\ UNCHANGED <<script, pc, mapping, call, probe,
                                                  projects, aggVars,
                                                  exportVars>>

\* Lines 308-322: df is exhausted; the amounts are rounded and the list returned.
FinishProjects ==
    /\ script = "projects"
    /\ pc = "running"
    /\ projects' = RoundedProjects(projects_map)
    /\ pc' = "done"
    /\ UNCHANGED <<script, mapping, call, probe, projects_map, nrows, row, ledger,
                   aggVars, exportVars>>

InitClassifier == InitFor({"classifier", "projects"})

NextClassifier ==
    \/ ClassifyCall
    \/ ProcessRow
    \/ FinishProjects

SpecClassifier == InitClassifier /\ [][NextClassifier]_vars


----------------------------------------------------------------------------
(* Python and pandas orderings                                             *)

\* The characters of the strings the scripts sort, in code-point order.
CodePointOrder == <<
    " ", "-", ".", "0", "1", "2", "3", "4", "5", "6", "7", "8", "9", "A",
    "B", "C", "D", "E", "F", "G", "H", "I", "J", "K", "L", "M", "N", "O",
    "P", "Q", "R", "S", "T", "U", "V", "W", "X", "Y", "Z", "a", "b", "c",
    "d", "e", "f", "g", "h", "i", "j", "k", "l", "m", "n", "o", "p", "q",
    "r", "s", "t", "u", "v", "w", "x", "y", "z"
>>

CodePoint == [c \in {CodePointOrder[i] : i \in 1..Len(CodePointOrder)} |->
                 CHOOSE i \in 1..Len(CodePointOrder) : CodePointOrder[i] = c]

\* A list comprehension: the list with its elements evaluated.
List(items) == SubSeq(items, 1, Len(items))

\* Sort keys: an int n is <<n>>, a str is the sequence of its code points,
\* a tuple is the sequence of its components' keys.
OrdInt(n) == <<n>>

OrdStr(chars) == List([i \in 1..Len(chars) |-> CodePoint[chars[i]]])

IntSeqLess(a, b) ==
    \E i \in 1..Len(b) :
        /\ i <= Len(a) + 1
        /\ \A j \in 1..(i - 1) : a[j] = b[j]
        /\ (i = Len(a) + 1 \/ a[i] < b[i])

\* Python's tuple comparison (the tuples compared have the same length).
TupleLess(a, b) ==
    \E i \in 1..Len(a) :
        /\ \A j \in 1..(i - 1) : a[j] = b[j]
        /\ IntSeqLess(a[i], b[i])

\* sorted(items, key=...): ascending and stable; keys[i] is the sort key of
\* items[i].
PySorted(items, keys) ==
    LET n == Len(items)
        Before(i, j) == \/ TupleLess(keys[i], keys[j])
                        \/ (keys[i] = keys[j] /\ i < j)
        place == List([i \in 1..n |-> Cardinality({j \in 1..n : Before(j, i)}) + 1])
    IN  List([p \in 1..n |-> items[CHOOSE i \in 1..n : place[i] = p]])

\* The distinct values of a list, in order of first appearance.
RECURSIVE Unique(_)
Unique(values) ==
    IF values = <<>> THEN <<>>
    ELSE LET front == Unique(SubSeq(values, 1, Len(values) - 1))
             last  == values[Len(values)]
         IN  IF InSeq(last, front) THEN front ELSE Append(front, last)

\* The group keys of df.groupby(...), given the key of each row: pandas
\* returns the distinct keys in ascending order (sort=True is the default).
GroupKeys(keys) == PySorted(Unique(keys), Unique(keys))

\* sorted(values, reverse=True) of a set of ints.
SortedReverse(values) ==
    [p \in 1..Cardinality(values) |->
        CHOOSE v \in values : Cardinality({other \in values : other > v}) = p - 1]

\* A cell in a sum: NaN cells are skipped (skipna).
CellValue(cell) == IF cell.kind = "num" THEN cell.num ELSE 0

\* The nearest integer to n / d, ties to the even one (n >= 0, d > 0).
RoundDivHalfEven(n, d) ==
    LET q == n \div d
        r == n % d
    IN  IF 2 * r < d THEN q
        ELSE IF 2 * r > d THEN q + 1
        ELSE IF q % 2 = 0 THEN q ELSE q + 1

----------------------------------------------------------------------------
(* arbeiders-bedienden/src/process_data.py                                 *)

arbeiders == <<"a","r","b","e","i","d","e","r","s">>
bedienden == <<"b","e","d","i","e","n","d","e","n">>
mannen == <<"m","a","n","n","e","n">>
vrouwen == <<"v","r","o","u","w","e","n">>

SHEETS == <<
    [sheet |-> "tabel8",  type |-> arbeiders, gender |-> mannen],
    [sheet |-> "tabel9",  type |-> arbeiders, gender |-> vrouwen],
    [sheet |-> "tabel10", type |-> bedienden, gender |-> mannen],
    [sheet |-> "tabel11", type |-> bedienden, gender |-> vrouwen]
>>

PROVINCE_NAMES == {
    <<"A","n","t","w","e","r","p","e","n">>,
    <<"B","r","u","s","s","e","l","s"," ","H","o","o","f","d","s","t","."," ","G","e","w",".">>,
    <<"H","e","n","e","g","o","u","w","e","n">>,
    <<"L","i","m","b","u","r","g">>,
    <<"L","u","i","k">>,
    <<"L","u","x","e","m","b","u","r","g">>,
    <<"N","a","m","e","n">>,
    <<"O","o","s","t","-","V","l","a","a","n","d","e","r","e","n">>,
    <<"V","l","a","a","m","s","-","B","r","a","b","a","n","t">>,
    <<"W","a","a","l","s","-","B","r","a","b","a","n","t">>,
    <<"W","e","s","t","-","V","l","a","a","n","d","e","r","e","n">>
}

\* Lines 72-99: what one data row of a sheet adds to results.
process_excel_file(results, year, metadata, province, value) ==
    IF province.kind = "nan" THEN results
    ELSE IF province.kind = "str" /\ Strip(province.chars) = <<>> THEN results
    ELSE IF province.kind # "str" \/ Strip(province.chars) \notin PROVINCE_NAMES
         THEN results
    ELSE IF value.kind = "nan" \/ (value.kind = "str" /\ value.chars = <<>>)
         THEN results
    ELSE LET parsed == IF value.kind = "num" THEN [ok |-> TRUE, value |-> value.num]
                       ELSE PyFloat(value.chars)
         IN  IF ~parsed.ok THEN results
             ELSE Append(results,
                    [year     |-> year,
                     province |-> Strip(province.chars),
                     type     |-> metadata.type,
                     gender   |-> metadata.gender,
                     count    |-> IF parsed.value = PyInt(parsed.value)
                                  THEN PyInt(parsed.value) ELSE parsed.value])

\* ['count'].sum() over the records of a group.
CountSum(records) == SeqSum([i \in 1..Len(records) |-> records[i].count])

\* Lines 186-207 use the same exclusion as lines 163-167.
exclude_regions == {<<"V","l","a","a","m","s"," ","G","e","w","e","s","t">>, <<"W","a","a","l","s"," ","G","e","w","e","s","t">>}

\* A variant of aggregate_time_series that keeps a group's last count.
LastCountTimeSeries(data) ==
    LET Key(r) == <<OrdInt(r.year), OrdStr(r.type), OrdStr(r.gender)>>
        grouped == GroupKeys(List([i \in 1..Len(data) |-> Key(data[i])]))
        group(i) == SelectSeq(data, LAMBDA r : Key(r) = grouped[i])
        time_series == List([i \in 1..Len(grouped) |->
            [year   |-> group(i)[1].year,
             type   |-> group(i)[1].type,
             gender |-> group(i)[1].gender,
             count  |-> PyInt(group(i)[Len(group(i))].count)]])
    IN  PySorted(time_series, [i \in 1..Len(time_series) |-> Key(time_series[i])])

aggregate_time_series(data) ==
    LET Key(r) == <<OrdInt(r.year), OrdStr(r.type), OrdStr(r.gender)>>
        grouped == GroupKeys(List([i \in 1..Len(data) |-> Key(data[i])]))
        group(i) == SelectSeq(data, LAMBDA r : Key(r) = grouped[i])
        time_series == List([i \in 1..Len(grouped) |->
            [year   |-> group(i)[1].year,
             type   |-> group(i)[1].type,
             gender |-> group(i)[1].gender,
             count  |-> PyInt(CountSum(group(i)))]])
    IN  PySorted(time_series, [i \in 1..Len(time_series) |-> Key(time_series[i])])

aggregate_by_type_only(data) ==
    LET Key(r) == <<OrdInt(r.year), OrdStr(r.type)>>
        grouped == GroupKeys(List([i \in 1..Len(data) |-> Key(data[i])]))
        group(i) == SelectSeq(data, LAMBDA r : Key(r) = grouped[i])
        result == List([i \in 1..Len(grouped) |->
            [year  |-> group(i)[1].year,
             type  |-> group(i)[1].type,
             count |-> PyInt(CountSum(group(i)))]])
    IN  PySorted(result, [i \in 1..Len(result) |-> Key(result[i])])

\* A variant of aggregate_total_by_year that sums each year's counts after
\* converting them one by one.
TruncateEachTotalByYear(data) ==
    LET Key(r) == <<OrdInt(r.year)>>
        grouped == GroupKeys(List([i \in 1..Len(data) |-> Key(data[i])]))
        group(i) == SelectSeq(data, LAMBDA r : Key(r) = grouped[i])
        result == List([i \in 1..Len(grouped) |->
            [year  |-> group(i)[1].year,
             count |-> SeqSum([k \in 1..Len(group(i)) |-> PyInt(group(i)[k].count)])]])
    IN  PySorted(result, [i \in 1..Len(result) |-> Key(result[i])])

aggregate_total_by_year(data) ==
    LET Key(r) == <<OrdInt(r.year)>>
        grouped == GroupKeys(List([i \in 1..Len(data) |-> Key(data[i])]))
        group(i) == SelectSeq(data, LAMBDA r : Key(r) = grouped[i])
        result == List([i \in 1..Len(grouped) |->
            [year  |-> group(i)[1].year,
             count |-> PyInt(CountSum(group(i)))]])
    IN  PySorted(result, [i \in 1..Len(result) |-> Key(result[i])])

aggregate_by_province(data) ==
    LET kept == SelectSeq(data, LAMBDA r : r.province \notin exclude_regions)
        latest_year == SetMax({kept[i].year : i \in 1..Len(kept)})
        df_latest == SelectSeq(kept, LAMBDA r : r.year = latest_year)
        Key(r) == <<OrdStr(r.province), OrdStr(r.type)>>
        grouped == GroupKeys(List([i \in 1..Len(df_latest) |-> Key(df_latest[i])]))
        group(i) == SelectSeq(df_latest, LAMBDA r : Key(r) = grouped[i])
    IN  List([i \in 1..Len(grouped) |->
            [province |-> group(i)[1].province,
             type     |-> group(i)[1].type,
             count    |-> PyInt(CountSum(group(i)))]])

aggregate_time_series_by_province(data) ==
    LET kept == SelectSeq(data, LAMBDA r : r.province \notin exclude_regions)
        Key(r) == <<OrdInt(r.year), OrdStr(r.province), OrdStr(r.type)>>
        grouped == GroupKeys(List([i \in 1..Len(kept) |-> Key(kept[i])]))
        group(i) == SelectSeq(kept, LAMBDA r : Key(r) = grouped[i])
        result == List([i \in 1..Len(grouped) |->
            [year     |-> group(i)[1].year,
             province |-> group(i)[1].province,
             type     |-> group(i)[1].type,
             count    |-> PyInt(CountSum(group(i)))]])
    IN  PySorted(result, [i \in 1..Len(result) |-> Key(result[i])])

----------------------------------------------------------------------------
(* vergunningen-aanvragen/src/process_vergunningen.py                      *)

woningen_functies == {"eengezinswoning", "meergezinswoning", "kamerwoning",
                      "eengezins- en kamerwoning", "meergezins- en kamerwoning"}

\* Lines 96-110.  A row of df is taken after lines 61-67, so it has the
\* column kwartaal_nr.
nieuwbouw_quarterly(frame) ==
    LET df_nieuwbouw == SelectSeq(frame, LAMBDA r :
                            /\ r.handeling = "Nieuwbouw"
                            /\ r.gebouw_functie \in woningen_functies)
        Key(r) == <<OrdInt(r.jaar), OrdInt(r.kwartaal_nr)>>
        grouped == GroupKeys(List([i \in 1..Len(df_nieuwbouw) |->
                                      Key(df_nieuwbouw[i])]))
        group(i) == SelectSeq(df_nieuwbouw, LAMBDA r : Key(r) = grouped[i])
        summed == List([i \in 1..Len(grouped) |->
            LET rows == group(i)
                n == Len(rows)
            IN  [jaar                |-> rows[1].jaar,
                 kwartaal_nr         |-> rows[1].kwartaal_nr,
                 aantal_projecten    |->
                     SeqSum([k \in 1..n |-> CellValue(rows[k].aantal_projecten)]),
                 aantal_gebouwen     |->
                     SeqSum([k \in 1..n |-> CellValue(rows[k].aantal_gebouwen)]),
                 aantal_wooneenheden |->
                     SeqSum([k \in 1..n |-> CellValue(rows[k].aantal_wooneenheden)]),
                 woonoppervlakte_m2  |->
                     SeqSum([k \in 1..n |-> CellValue(rows[k].woonoppervlakte_m2)])]])
        quarterly == PySorted(summed, [i \in 1..Len(summed) |-> Key(summed[i])])
    IN  List([i \in 1..Len(quarterly) |->
            [y  |-> quarterly[i].jaar,
             q  |-> quarterly[i].kwartaal_nr,
             p  |-> PyInt(quarterly[i].aantal_projecten),
             g  |-> PyInt(quarterly[i].aantal_gebouwen),
             w  |-> PyInt(quarterly[i].aantal_wooneenheden),
             m2 |-> Round0(quarterly[i].woonoppervlakte_m2)]])

----------------------------------------------------------------------------
(* epc-labelverdeling/src/process_epc_data.py                              *)

residential == <<"Appartement", "Collectief woongebouw", "Eengezinswoning">>

\* The loops of lines 16-30 with the years in the order of the list years.
ShareSeries(frame, years) ==
    LET residential_data == SelectSeq(frame, LAMBDA r : InSeq(r.Bestemming, residential))
        n == Len(residential)
        visited == List([k \in 1..(Len(years) * n) |->
                       <<years[((k - 1) \div n) + 1], residential[((k - 1) % n) + 1]>>])
        building_data(v) == SelectSeq(residential_data, LAMBDA r :
                                r.Jaar = v[1] /\ r.Bestemming = v[2])
        appended == SelectSeq(visited, LAMBDA v : Len(building_data(v)) > 0)
    IN  List([i \in 1..Len(appended) |->
            LET rows == building_data(appended[i])
                labelled == SelectSeq(rows, LAMBDA r : r.Energielabel \in {"A+", "A"})
                aa_count == SeqSum([k \in 1..Len(labelled) |-> labelled[k].Aantal])
                total_count == SeqSum([k \in 1..Len(rows) |-> rows[k].Aantal])
            IN  [year           |-> appended[i][1],
                 building_type  |-> appended[i][2],
                 share          |-> IF total_count > 0
                                    THEN (Milli \div 100) *
                                         RoundDivHalfEven(aa_count * 100 * 100,
                                                          total_count)
                                    ELSE 0,
                 label_a_plus_a |-> PyInt(aa_count),
                 total          |-> PyInt(total_count)]])

\* sorted(values) of a set of ints.
SortedAscending(values) ==
    [p \in 1..Cardinality(values) |->
        CHOOSE v \in values : Cardinality({other \in values : other < v}) = p - 1]

\* A variant of lines 16-30 that visits the years in ascending order.
AscendingYearShares(frame) ==
    ShareSeries(frame, SortedAscending({frame[i].Jaar : i \in 1..Len(frame)}))

residential_aa_by_year_building(frame) ==
    ShareSeries(frame, SortedReverse({frame[i].Jaar : i \in 1..Len(frame)}))

----------------------------------------------------------------------------
(* bouwprojecten-gemeenten: summarize_projects_by_category, chunk_and_save *)

\* The keys of CATEGORY_DEFINITIONS, in the order of the literal.
CategoryIds ==
    << "wegenbouw", "riolering", "scholenbouw", "sport", "cultuur", "gebouwen",
       "werking", "veiligheid", "verlichting", "groen", "ruimtelijke-ordening",
       "zorg" >>

\* get_category_label(category_id)
get_category_label(category_id) ==
    CASE category_id = "overige" -> "Overige"
      [] category_id = "werking" -> "organisatie & werking"
      [] category_id = "ruimtelijke-ordening" -> "ruimtelijke ordening"
      [] OTHER -> category_id

\* _normalize_categories for a list: an empty list counts as ['overige'].
normalize_categories(raw) == IF raw = <<>> THEN <<"overige">> ELSE raw

\* cat_projects without the projects of the default category.
RECURSIVE CatProjectsMapped(_, _)
CatProjectsMapped(items, cat_id) ==
    IF items = <<>> \/ cat_id = "overige" THEN <<>>
    ELSE LET proj == items[Len(items)]
             hits == SelectSeq(normalize_categories(proj.categories),
                               LAMBDA cat : cat = cat_id)
         IN  CatProjectsMapped(SubSeq(items, 1, Len(items) - 1), cat_id)
             \o [k \in 1..Len(hits) |-> proj]

\* cat_projects.get(cat_id, []): the projects under a category, a project
\* once for every occurrence of the category in its list.
RECURSIVE CatProjects(_, _)
CatProjects(items, cat_id) ==
    IF items = <<>> THEN <<>>
    ELSE LET proj == items[Len(items)]
             hits == SelectSeq(normalize_categories(proj.categories),
                               LAMBDA cat : cat = cat_id)
         IN  CatProjects(SubSeq(items, 1, Len(items) - 1), cat_id)
             \o [k \in 1..Len(hits) |-> proj]

\* sorted(items, key=lambda x: x['total_amount'], reverse=True): descending
\* and stable, items with equal amounts keep their order.
SortedByAmount(items) ==
    PySorted(items, List([i \in 1..Len(items) |-> <<OrdInt(-items[i].total_amount)>>]))

\* chunk_and_save passes top_n=10.
top_n == 10

\* A variant of summarize_projects_by_category that has entries only for
\* the categories some project has.
SummarizePresentOnly(items, n) ==
    LET all_cats == {c \in {CategoryIds[i] : i \in 1..Len(CategoryIds)} \cup {"overige"} :
                        CatProjects(items, c) # <<>>}
    IN  [cat_id \in all_cats |->
            LET plist == CatProjects(items, cat_id)
                largest == SubSeq(SortedByAmount(plist), 1,
                                  IF Len(plist) < n THEN Len(plist) ELSE n)
            IN  [id |-> cat_id,
                 label |-> get_category_label(cat_id),
                 project_count |-> Len(plist),
                 total_amount |->
                     Round2(SeqSum(List([i \in 1..Len(plist) |-> plist[i].total_amount]))),
                 largest_projects |->
                     List([i \in 1..Len(largest) |->
                        [ac_code |-> largest[i].ac_code,
                         municipality |-> largest[i].municipality,
                         nis_code |-> largest[i].nis_code,
                         total_amount |-> Round2(largest[i].total_amount),
                         yearly_amounts |-> largest[i].yearly_amounts]])]]

\* summarize_projects_by_category(projects, top_n); ac_short is not among
\* the fields of the projects of the runs.
summarize_projects_by_category(items, n) ==
    LET all_cats == {CategoryIds[i] : i \in 1..Len(CategoryIds)} \cup {"overige"}
    IN  [cat_id \in all_cats |->
            LET plist == CatProjects(items, cat_id)
                largest == SubSeq(SortedByAmount(plist), 1,
                                  IF Len(plist) < n THEN Len(plist) ELSE n)
            IN  [id |-> cat_id,
                 label |-> get_category_label(cat_id),
                 project_count |-> Len(plist),
                 total_amount |->
                     Round2(SeqSum(List([i \in 1..Len(plist) |-> plist[i].total_amount]))),
                 largest_projects |->
                     List([i \in 1..Len(largest) |->
                        [ac_code |-> largest[i].ac_code,
                         municipality |-> largest[i].municipality,
                         nis_code |-> largest[i].nis_code,
                         total_amount |-> Round2(largest[i].total_amount),
                         yearly_amounts |-> largest[i].yearly_amounts]])]]

\* The metadata of chunk_and_save (lines 402-417).
Metadata(items, chunks, chunk_size) ==
    [total_projects |-> Len(items),
     total_amount |-> Round2(SeqSum(List([i \in 1..Len(items) |-> items[i].total_amount]))),
     municipalities |-> Cardinality({items[i].nis_code : i \in 1..Len(items)}),
     chunks |-> Len(chunks),
     chunk_size |-> chunk_size,
     categories |-> summarize_projects_by_category(items, top_n)]

\* A variant of chunk_and_save that chunks the list in the order it got it.
ChunkUnsorted(items, chunk_size) ==
    LET n == Len(items)
        chunks == List([c \in 1..((n + chunk_size - 1) \div chunk_size) |->
                    SubSeq(items, (c - 1) * chunk_size + 1,
                           IF c * chunk_size < n THEN c * chunk_size ELSE n)])
    IN  [chunks |-> chunks, metadata |-> Metadata(items, chunks, chunk_size)]

\* chunk_and_save(projects, chunk_size): the content of the chunk files
\* projects_2026_chunk_0.json, ... (chunks[c] is the file of index c - 1) and
\* of projects_metadata.json.
chunk_and_save(items, chunk_size) ==
    LET projects_sorted == SortedByAmount(items)
        n == Len(projects_sorted)
        chunks == List([c \in 1..((n + chunk_size - 1) \div chunk_size) |->
                    SubSeq(projects_sorted, (c - 1) * chunk_size + 1,
                           IF c * chunk_size < n THEN c * chunk_size ELSE n)])
    IN  [chunks |-> chunks, metadata |-> Metadata(items, chunks, chunk_size)]

----------------------------------------------------------------------------
(* Inputs of the aggregation runs                                          *)

\* Records all the sheets of a run add to all_data.
MaxRecords == 2

\* Rows of the CSV file a run loads.
MaxCsvRows == 2

ExcelYears == {2023, 2024}

\* Column A of the data rows of a sheet, top to bottom.
ProvinceRows == <<
    NaN,
    Text(<<"V","l","a","a","m","s"," ","G","e","w","e","s","t">>),
    Text(<<" ","L","i","m","b","u","r","g"," ">>),
    Text(<<"A","n","t","w","e","r","p","e","n">>)
>>

ValueCells == {NaN, Text(<<>>), Text(<<"x">>), Num(Milli + (Milli \div 2)),
               Text(<<"2">>)}

\* Where a record of all_data was read: file, sheet and row.
Position(r) ==
    <<r.year,
      CHOOSE s \in 1..Len(SHEETS) :
          SHEETS[s].type = r.type /\ SHEETS[s].gender = r.gender,
      CHOOSE idx \in 1..Len(ProvinceRows) :
          /\ ProvinceRows[idx].kind = "str"
          /\ Strip(ProvinceRows[idx].chars) = r.province>>

PermitRows ==
    [jaar                : {2023, 2024},
     kwartaal_nr         : {1, 2},
     handeling           : {"Nieuwbouw", "Sloop"},
     gebouw_functie      : {"eengezinswoning", "kantoor"},
     aantal_projecten    : {Num(Milli)},
     aantal_gebouwen     : {Num(2 * Milli)},
     aantal_wooneenheden : {Num(3 * Milli)},
     woonoppervlakte_m2  : {NaN, Num(100 * Milli + (Milli \div 2)), Num(50 * Milli)}]

EpcRows ==
    [Jaar         : {2022, 2023},
     Bestemming   : {"Appartement", "Eengezinswoning", "Kantoor"},
     Energielabel : {"A", "C"},
     Aantal       : {Milli, 3 * Milli}]

----------------------------------------------------------------------------
(* Aggregation runs                                                        *)

\* process_excel_file lines 68-99 for one data row.  main reads the files in
\* sorted order, process_excel_file the sheets in the order of SHEETS and the
\* rows of a sheet from top to bottom.
ProcessSheetRow ==
    /\ script = "employment"
    /\ pc = "running"
    /\ Len(all_data) < MaxRecords
    /\ LET last == IF all_data = <<>> THEN <<0, 0, 0>>
                   ELSE Position(all_data[Len(all_data)])
       IN  \E year \in ExcelYears, s \in 1..Len(SHEETS), idx \in 1..Len(ProvinceRows) :
            /\ \/ last[1] < year
               \/ last[1] = year /\ last[2] < s
               \/ last[1] = year /\ last[2] = s /\ last[3] < idx
            /\ \E value \in ValueCells :
                all_data' = process_excel_file(all_data, year, SHEETS[s],
                                               ProvinceRows[idx], value)
    /\ UNCHANGED <<script, pc, mapping, call, probe, projects_map, nrows, row,
                   projects, ledger, df, output_files, exportVars>>

\* main lines 227-248.  With no record, pd.DataFrame([]) has no column and
\* groupby raises KeyError.
MainSave ==
    /\ script = "employment"
    /\ pc = "running"
    /\ IF all_data = <<>>
       THEN /\ pc' = "raised"
            /\ UNCHANGED output_files
       ELSE /\ pc' = "done"
            /\ output_files' =
                ("time_series_detailed.json" :> aggregate_time_series(all_data))
                @@ ("time_series_by_type.json" :> aggregate_by_type_only(all_data))
                @@ ("time_series_total.json" :> aggregate_total_by_year(all_data))
                @@ ("province_latest.json" :> aggregate_by_province(all_data))
                @@ ("time_series_by_province.json" :>
                        aggregate_time_series_by_province(all_data))
    /\ UNCHANGED <<script, mapping, call, probe, projects_map, nrows, row, projects,
                   ledger, all_data, df, exportVars>>

\* pd.read_csv: one more row of the file.
ReadCsvRow ==
    /\ script \in {"permits", "epc"}
    /\ pc = "running"
    /\ Len(df) < MaxCsvRows
    /\ \E r \in (IF script = "permits" THEN PermitRows ELSE EpcRows) :
        df' = Append(df, r)
    /\ UNCHANGED <<script, pc, mapping, call, probe, projects_map, nrows, row,
                   projects, ledger, all_data, output_files, exportVars>>

\* process_vergunningen.py lines 96-110.
ExportQuarterly ==
    /\ script = "permits"
    /\ pc = "running"
    /\ pc' = "done"
    /\ output_files' = ("nieuwbouw_quarterly.json" :> nieuwbouw_quarterly(df))
    /\ UNCHANGED <<script, mapping, call, probe, projects_map, nrows, row, projects,
                   ledger, all_data, df, exportVars>>

\* process_epc_data.py lines 13-30 and 91-92.
ExportShares ==
    /\ script = "epc"
    /\ pc = "running"
    /\ pc' = "done"
    /\ output_files' = ("residential_aa_share.json" :>
                            residential_aa_by_year_building(df))
    /\ UNCHANGED <<script, mapping, call, probe, projects_map, nrows, row, projects,
                   ledger, all_data, df, exportVars>>

\* chunk_size is a parameter (2000 by default); the runs use sizes for which
\* a list of MaxRows projects spans more than one chunk.
MaxChunkSize == 2

\* main: process_projects returned, chunk_and_save writes the chunk files and
\* the metadata.
ChunkAndSave ==
    /\ script = "projects"
    /\ pc = "done"
    /\ output_files = <<>>
    /\ \E chunk_size \in 1..MaxChunkSize :
          output_files' = chunk_and_save(projects, chunk_size)
    /\ UNCHANGED <<script, pc, mapping, call, probe, projects_map, nrows, row, projects,
                   ledger, all_data, df, exportVars>>

InitAggregate == InitFor({"projects", "employment", "permits", "epc"})

NextAggregate ==
    \/ ProcessRow
    \/ FinishProjects
    \/ ChunkAndSave
    \/ ProcessSheetRow
    \/ MainSave
    \/ ReadCsvRow
    \/ ExportQuarterly
    \/ ExportShares

SpecAggregate == InitAggregate /\ [][NextAggregate]_vars

----------------------------------------------------------------------------
(* The export step: write_json, the save loop of main and of chunk_and_save *)

\* Entries of the list a script dumps.
MaxItems == 2

Items == {"a", "b"}

Payloads == UNION {[1..n -> Items] : n \in 0..MaxItems}

\* The destinations a run writes one after the other: RESULTS_DIR / filename
\* and PUBLIC_DATA_DIR / filename in write_json.
Destinations == <<"results", "public">>

\* The chunks json.dump writes for a list: the opening bracket, the items
\* and the closing bracket.
Encode(data) == <<"[">> \o data \o <<"]">>

\* The disk before the run: each destination is absent or holds an older
\* complete file.
Disks == UNION {[S -> {Encode(<<"old">>)}] : S \in SUBSET {"results", "public"}}

InitExport ==
    /\ script = "export"
    /\ pc = "running"
    /\ mapping = <<>>
    /\ call = NoCall
    /\ probe = NoCall
    /\ projects_map = <<>>
    /\ nrows = 0
    /\ row = NoRow
    /\ projects = <<>>
    /\ ledger = NoLedger
    /\ all_data = <<>>
    /\ df = <<>>
    /\ output_files = <<>>
    /\ disk \in Disks
    /\ \E data \in Payloads :
        writer = [data |-> data, file |-> 1, handle |-> "closed", left |-> <<>>,
                  previous |-> disk]
    /\ dirs = {}
    /\ step = 0
    /\ fetch = NoFetch
    /\ tool = NoTool
    /\ monthly = NoMonthly

dataVars == <<script, mapping, call, probe, projects_map, nrows, row, projects,
              ledger, all_data, df, output_files, runVars>>

Exporting == script = "export" /\ pc = "running"

\* open(path, "w"): the file is created, or truncated if it exists.
OpenFile ==
    /\ Exporting
    /\ writer.handle = "closed"
    /\ disk' = (Destinations[writer.file] :> <<>>) @@ disk
    /\ writer' = [writer EXCEPT !.handle = "open", !.left = Encode(writer.data)]
    /\ UNCHANGED <<pc, dataVars>>

\* open(path, "w") raises OSError: nothing is created or truncated.
FailOpen ==
    /\ Exporting
    /\ writer.handle = "closed"
    /\ pc' = "raised"
    /\ UNCHANGED <<disk, writer, dataVars>>

\* json.dump writes its next chunk to the file.
DumpChunk ==
    /\ Exporting
    /\ writer.handle = "open"
    /\ writer.left # <<>>
    /\ disk' = [disk EXCEPT ![Destinations[writer.file]] = Append(@, Head(writer.left))]
    /\ writer' = [writer EXCEPT !.left = Tail(@)]
    /\ UNCHANGED <<pc, dataVars>>

\* A write of json.dump raises: the with block closes the file and the
\* exception ends the run.
FailDump ==
    /\ Exporting
    /\ writer.handle = "open"
    /\ writer.left # <<>>
    /\ writer' = [writer EXCEPT !.handle = "closed"]
    /\ pc' = "raised"
    /\ UNCHANGED <<disk, dataVars>>

\* The with block ends; the run goes on to its next destination.
CloseFile ==
    /\ Exporting
    /\ writer.handle = "open"
    /\ writer.left = <<>>
    /\ writer' = [writer EXCEPT !.handle = "closed",
                                !.file = IF @ < Len(Destinations) THEN @ + 1 ELSE @]
    /\ pc' = IF writer.file < Len(Destinations) THEN "running" ELSE "done"
    /\ UNCHANGED <<disk, dataVars>>

NextExport ==
    \/ OpenFile
    \/ FailOpen
    \/ DumpChunk
    \/ FailDump
    \/ CloseFile

SpecExport == InitExport /\ [][NextExport]_vars

----------------------------------------------------------------------------
(* The statements of the scripts that touch the file system                *)

\* A file is named by its directory and its name.
File(dir, name) == <<dir, name>>

DirOf(path) == path[1]

\* The directory tree the scripts work in: the results directory of the
\* analysis (with its yearly and municipality subdirectories) under the
\* analysis directory, the public data directory of the analysis under
\* public/data under the repository.  The analysis directory and the
\* repository hold the running script, so they exist.
Parent ==
    [d \in {"results", "results/yearly", "results/municipality", "public_data",
            "public", "public/municipality", "public/yearly"} |->
        CASE d = "results" -> "analysis"
          [] d = "results/yearly" -> "results"
          [] d = "results/municipality" -> "results"
          [] d = "public_data" -> "repo"
          [] d = "public" -> "public_data"
          [] d = "public/municipality" -> "public"
          [] d = "public/yearly" -> "public"]

Roots == {"analysis", "repo"}

RECURSIVE Ancestors(_)
Ancestors(d) == IF d \in Roots THEN {} ELSE {Parent[d]} \cup Ancestors(Parent[d])

\* Path.mkdir(parents=parents, exist_ok=True)
Mkdir(path, parents) == [op |-> "mkdir", path |-> path, parents |-> parents]

\* with open(path, "w") as f: json.dump(data, f), or DataFrame.to_json(path)
WriteFile(path) == [op |-> "write", path |-> path, parents |-> FALSE]

\* if not path.exists(): print("ERROR: ..."); raise SystemExit(1)
Require(path) == [op |-> "require", path |-> path, parents |-> FALSE]

\* json.load(open(path))
Load(path) == [op |-> "load", path |-> path, parents |-> FALSE]

\* A computation on the loaded data that raises for some data.
Compute(line) == [op |-> "compute", path |-> line, parents |-> FALSE]

\* process_epc_data.py: the four exports, to paths relative to the working
\* directory, with no mkdir anywhere in the script.
EpcProgram ==
    << WriteFile(File("results", "residential_aa_share.json")),
       WriteFile(File("results", "residential_ef_share.json")),
       WriteFile(File("results", "non_residential_aa_share.json")),
       WriteFile(File("results", "non_residential_ef_share.json")) >>

\* arbeiders-bedienden main: "Save results".
EmploymentProgram ==
    << Mkdir("results", FALSE),
       WriteFile(File("results", "time_series_detailed.json")),
       WriteFile(File("results", "time_series_by_type.json")),
       WriteFile(File("results", "time_series_total.json")),
       WriteFile(File("results", "province_latest.json")),
       WriteFile(File("results", "time_series_by_province.json")) >>

\* vergunningen-goedkeuringen process_data: the exports and the per-year
\* aggregates (the loop body once, for one year).
ApprovalsProgram ==
    << Mkdir("results", TRUE),
       WriteFile(File("results", "data_quarterly.json")),
       WriteFile(File("results", "data_monthly.json")),
       WriteFile(File("results", "municipalities.json")),
       Mkdir("results/yearly", TRUE),
       WriteFile(File("results/yearly", "year_2024.json")),
       WriteFile(File("results", "yearly_index.json")) >>

mfile == File("results", "data_monthly.json")

qfile == File("results", "data_quarterly.json")

\* postprocess_vergunningen.py, statement by statement (each loop body once).
PostprocessProgram ==
    << Mkdir("results", TRUE),
       Mkdir("public", TRUE),
       Require(mfile),
       Load(mfile),
       Compute("filtered"),
       WriteFile(mfile),
       WriteFile(File("public", "data_monthly.json")),
       Mkdir("results/municipality", FALSE),
       Mkdir("public/municipality", FALSE),
       Compute("by_m"),
       WriteFile(File("results/municipality", "11001.json")),
       WriteFile(File("public/municipality", "11001.json")),
       WriteFile(File("results", "municipality_index.json")),
       WriteFile(File("public", "municipality_index.json")),
       Require(qfile),
       Load(qfile),
       Compute("by_year_m"),
       Mkdir("results/yearly", FALSE),
       Mkdir("public/yearly", FALSE),
       WriteFile(File("results/yearly", "year_2024.json")),
       WriteFile(File("public/yearly", "year_2024.json")),
       WriteFile(File("results", "yearly_index.json")),
       WriteFile(File("public", "yearly_index.json")) >>

\* bedrijventerreinen-vlaanderen process_data.py: each payload is computed
\* and then written, one after the other.
TerreinenProgram ==
    << Mkdir("results", FALSE),
       Compute("time_series"),
       WriteFile(File("results", "time_series.json")),
       Compute("geo_data"),
       WriteFile(File("results", "geographic_data.json")),
       Compute("all_years_geo"),
       WriteFile(File("results", "all_years_geographic.json")),
       Compute("summary"),
       WriteFile(File("results", "summary.json")) >>

RunScripts == {"epc", "employment", "approvals", "postprocess", "terreinen"}

Program ==
    [s \in RunScripts |->
        CASE s = "epc" -> EpcProgram
          [] s = "employment" -> EmploymentProgram
          [] s = "approvals" -> ApprovalsProgram
          [] s = "postprocess" -> PostprocessProgram
          [] s = "terreinen" -> TerreinenProgram]

Statements(s, op) == {Program[s][i] : i \in {j \in 1..Len(Program[s]) : Program[s][j].op = op}}

\* The files a script writes, and the files it reads.
Outputs(s) == {st.path : st \in Statements(s, "write")}

Inputs(s) == {st.path : st \in Statements(s, "require") \cup Statements(s, "load")}

\* The directories a script's paths lie in.
DirsOf(s) ==
    LET named == {DirOf(p) : p \in Outputs(s) \cup Inputs(s)}
                 \cup {st.path : st \in Statements(s, "mkdir")}
    IN  named \cup UNION {Ancestors(d) : d \in named}

\* A file is a complete JSON document when json.dump wrote all of it.
Complete(content) ==
    /\ Len(content) >= 2
    /\ content[1] = "["
    /\ content[Len(content)] = "]"

\* A file an interrupted writer left behind.
Truncated == <<"[">>

\* What a run finds on disk: the directories that exist (with their
\* parents), in them all or none of the files a previous run wrote, and
\* each input file present, absent or malformed.
StartDirs(s) == {Roots \cup ds : ds \in {c \in SUBSET (DirsOf(s) \ Roots) : \A d \in c : Parent[d] \in c \cup Roots}}

InputStates == {"absent", "complete", "malformed"}

StartDisk(s, ds, previous, inputs) ==
    LET present == {p \in Outputs(s) \cup Inputs(s) :
                       /\ DirOf(p) \in ds
                       /\ IF p \in Inputs(s) THEN inputs[p] # "absent" ELSE previous}
    IN  [p \in present |->
            IF p \in Inputs(s) /\ inputs[p] = "malformed" THEN Truncated
            ELSE Encode(<<"old">>)]

InitRuns ==
    /\ script \in RunScripts
    /\ pc = "running"
    /\ mapping = <<>>
    /\ call = NoCall
    /\ probe = NoCall
    /\ projects_map = <<>>
    /\ nrows = 0
    /\ row = NoRow
    /\ projects = <<>>
    /\ ledger = NoLedger
    /\ all_data = <<>>
    /\ df = <<>>
    /\ output_files = <<>>
    /\ fetch = NoFetch
    /\ tool = NoTool
    /\ monthly = NoMonthly
    /\ step = 1
    /\ dirs \in StartDirs(script)
    /\ \E previous \in BOOLEAN, inputs \in [Inputs(script) -> InputStates] :
          disk = StartDisk(script, dirs, previous, inputs)
    /\ \E data \in Payloads :
          writer = [data |-> data, file |-> 1, handle |-> "closed", left |-> <<>>,
                    previous |-> disk, error |-> "none"]

runDataVars == <<script, mapping, call, probe, projects_map, nrows, row, projects,
                 ledger, all_data, df, output_files, fetch, tool, monthly>>

Running == script \in RunScripts /\ pc = "running"

Statement == Program[script][step]

\* The run goes on to its next statement, or ends after the last one.
Advance ==
    /\ step' = IF step < Len(Program[script]) THEN step + 1 ELSE step
    /\ pc' = IF step < Len(Program[script]) THEN "running" ELSE "done"

Raise(error) ==
    /\ pc' = "raised"
    /\ writer' = [writer EXCEPT !.error = error, !.handle = "closed"]
    /\ UNCHANGED step

\* mkdir(exist_ok=True): nothing to do for an existing directory; with
\* parents=True the missing parents are created too, without it a missing
\* parent raises FileNotFoundError.
MakeDirectory ==
    /\ Running
    /\ Statement.op = "mkdir"
    /\ LET d == Statement.path
       IN  IF d \in dirs \/ Statement.parents \/ Parent[d] \in dirs
           THEN /\ dirs' = dirs \cup {d} \cup (IF Statement.parents THEN Ancestors(d) ELSE {})
                /\ Advance
                /\ UNCHANGED writer
           ELSE /\ Raise("no_directory")
                /\ UNCHANGED dirs
    /\ UNCHANGED <<disk, runDataVars>>

\* open(path, "w"): the file is created, or truncated if it exists; in a
\* directory that does not exist it raises FileNotFoundError.
WriteOpen ==
    /\ Running
    /\ Statement.op = "write"
    /\ writer.handle = "closed"
    /\ IF DirOf(Statement.path) \in dirs
       THEN /\ disk' = (Statement.path :> <<>>) @@ disk
            /\ writer' = [writer EXCEPT !.handle = "open", !.left = Encode(writer.data)]
            /\ UNCHANGED <<pc, step>>
       ELSE /\ Raise("no_directory")
            /\ UNCHANGED disk
    /\ UNCHANGED <<dirs, runDataVars>>

\* json.dump writes its next chunk to the file.
WriteChunk ==
    /\ Running
    /\ Statement.op = "write"
    /\ writer.handle = "open"
    /\ writer.left # <<>>
    /\ disk' = [disk EXCEPT ![Statement.path] = Append(@, Head(writer.left))]
    /\ writer' = [writer EXCEPT !.left = Tail(@)]
    /\ UNCHANGED <<pc, step, dirs, runDataVars>>

\* A write of json.dump raises OSError (disk full, I/O error): the file is
\* closed and the exception ends the run.
WriteFails ==
    /\ Running
    /\ Statement.op = "write"
    /\ writer.handle = "open"
    /\ writer.left # <<>>
    /\ Raise("write_error")
    /\ UNCHANGED <<disk, dirs, runDataVars>>

\* The file is closed after the last chunk.
WriteClose ==
    /\ Running
    /\ Statement.op = "write"
    /\ writer.handle = "open"
    /\ writer.left = <<>>
    /\ writer' = [writer EXCEPT !.handle = "closed"]
    /\ Advance
    /\ UNCHANGED <<disk, dirs, runDataVars>>

\* if not path.exists(): print the error and raise SystemExit(1).
RequireFile ==
    /\ Running
    /\ Statement.op = "require"
    /\ IF Statement.path \in DOMAIN disk
       THEN Advance /\ UNCHANGED writer
       ELSE Raise("missing_input")
    /\ UNCHANGED <<disk, dirs, runDataVars>>

\* json.load(open(path)): FileNotFoundError for a missing file,
\* JSONDecodeError for a malformed one.
LoadFile ==
    /\ Running
    /\ Statement.op = "load"
    /\ IF Statement.path \notin DOMAIN disk THEN Raise("missing_input")
       ELSE IF ~Complete(disk[Statement.path]) THEN Raise("unreadable_input")
       ELSE Advance /\ UNCHANGED writer
    /\ UNCHANGED <<disk, dirs, runDataVars>>

\* A computation between two exports succeeds.
ComputeStep ==
    /\ Running
    /\ Statement.op = "compute"
    /\ Advance
    /\ UNCHANGED <<writer, disk, dirs, runDataVars>>

\* A computation between two exports raises (a record without the expected
\* key in postprocess_vergunningen.py, float(None) for the summary of
\* bedrijventerreinen-vlaanderen).
ComputeRaises ==
    /\ Running
    /\ Statement.op = "compute"
    /\ Raise("data_error")
    /\ UNCHANGED <<disk, dirs, runDataVars>>

NextRuns ==
    \/ MakeDirectory
    \/ WriteOpen
    \/ WriteChunk
    \/ WriteFails
    \/ WriteClose
    \/ RequireFile
    \/ LoadFile
    \/ ComputeStep
    \/ ComputeRaises

SpecRuns == InitRuns /\ [][NextRuns]_vars

----------------------------------------------------------------------------
(* vergunningen-goedkeuringen: the choice and the download of the input    *)

\* download_with_requests: max_retries = 2, retry_delay = 2 at its start.
max_retries == 2

first_retry_delay == 2

\* What the run finds: whether INPUT_FILE_PATH is set, what INPUT_URL names
\* (nothing, a text file, a ZIP file), and which local files exist (the file
\* named by INPUT_FILE_PATH, the default file, another BV_opendata_*.txt).
Environments ==
    [override : BOOLEAN, url : {"none", "txt", "zip"},
     local : SUBSET {"override", "default", "recent"}]

\* Why an HTTP GET attempt raised requests.RequestException or IOError: no
\* connection or a timeout, an error status (raise_for_status), a failed
\* write of the downloaded bytes.
RequestErrors == {"network", "http_status", "io"}

StartFetch(env) ==
    [env |-> env, phase |-> "choose", attempt |-> 0, retry_delay |-> 0,
     slept |-> <<>>, requests |-> "none", curl |-> "none", download |-> "none",
     error |-> "none", input_file |-> "none", read |-> "none"]

InitFetch ==
    /\ script = "fetch"
    /\ pc = "running"
    /\ mapping = <<>>
    /\ call = NoCall
    /\ probe = NoCall
    /\ projects_map = <<>>
    /\ nrows = 0
    /\ row = NoRow
    /\ projects = <<>>
    /\ ledger = NoLedger
    /\ all_data = <<>>
    /\ df = <<>>
    /\ output_files = <<>>
    /\ disk = <<>>
    /\ writer = NoWriter
    /\ dirs = {}
    /\ step = 0
    /\ tool = NoTool
    /\ monthly = NoMonthly
    /\ \E env \in Environments : fetch = StartFetch(env)

fetchOther == <<script, mapping, call, probe, projects_map, nrows, row, projects,
                ledger, all_data, df, output_files, disk, writer, dirs, step, tool,
                monthly>>

Fetching(phase) == script = "fetch" /\ pc = "running" /\ fetch.phase = phase

\* except Exception (line 147): the exception is printed, the download is
\* declared failed and the run goes on with the local choice of line 24.
DownloadFailed(f, error) == [f EXCEPT !.download = "failed", !.error = error, !.phase = "select"]

\* Line 24 and the test of INPUT_URL.
ChooseInput ==
    /\ Fetching("choose")
    /\ fetch' = [fetch EXCEPT
                    !.input_file = IF fetch.env.override THEN "override" ELSE "default",
                    !.phase = IF fetch.env.url = "none" THEN "select" ELSE "requests",
                    !.attempt = IF fetch.env.url = "none" THEN 0 ELSE 1,
                    !.retry_delay = IF fetch.env.url = "none" THEN 0 ELSE first_retry_delay]
    /\ UNCHANGED <<pc, fetchOther>>

\* An attempt of download_with_requests gets the data and writes the file:
\* return True, then validate_download.
RequestSucceeds ==
    /\ Fetching("requests")
    /\ fetch' = [fetch EXCEPT !.requests = "true", !.phase = "validate"]
    /\ UNCHANGED <<pc, fetchOther>>

\* An attempt raises requests.RequestException or IOError: before the last
\* attempt the function sleeps retry_delay seconds and doubles it, after the
\* last attempt it returns False and the caller tries curl.
RequestFails ==
    /\ Fetching("requests")
    /\ \E error \in RequestErrors :
          fetch' = IF fetch.attempt < max_retries
                   THEN [fetch EXCEPT !.slept = Append(@, fetch.retry_delay),
                                      !.retry_delay = @ * 2,
                                      !.attempt = @ + 1]
                   ELSE [fetch EXCEPT !.requests = "false", !.phase = "curl"]
    /\ UNCHANGED <<pc, fetchOther>>

\* The server answers with content-type text/html: line 53 raises ValueError,
\* which the except clause of line 59 does not name, so it leaves
\* download_with_requests and line 107 and is caught at line 147.
RequestReturnsHtml ==
    /\ Fetching("requests")
    /\ fetch' = DownloadFailed([fetch EXCEPT !.requests = "raised"], "ValueError")
    /\ UNCHANGED <<pc, fetchOther>>

\* download_with_curl returns True.
CurlSucceeds ==
    /\ Fetching("curl")
    /\ fetch' = [fetch EXCEPT !.curl = "true", !.phase = "validate"]
    /\ UNCHANGED <<pc, fetchOther>>

\* download_with_curl returns False (curl missing, non-zero exit, timeout):
\* line 113 raises RuntimeError.
CurlFails ==
    /\ Fetching("curl")
    /\ fetch' = DownloadFailed([fetch EXCEPT !.curl = "false"], "RuntimeError")
    /\ UNCHANGED <<pc, fetchOther>>

\* validate_download accepts the file; a file that is not a ZIP becomes the
\* input file (line 146).
ValidateAccepts ==
    /\ Fetching("validate")
    /\ fetch' = IF fetch.env.url = "zip"
                THEN [fetch EXCEPT !.phase = "extract"]
                ELSE [fetch EXCEPT !.download = "ok", !.input_file = "downloaded",
                                   !.phase = "select"]
    /\ UNCHANGED <<pc, fetchOther>>

\* validate_download raises (the file is HTML).
ValidateRejects ==
    /\ Fetching("validate")
    /\ fetch' = DownloadFailed(fetch, "ValueError")
    /\ UNCHANGED <<pc, fetchOther>>

\* The ZIP holds a text or csv file (the input file is the extracted file)
\* or none (the input file is the ZIP itself).
ExtractZip ==
    /\ Fetching("extract")
    /\ \E chosen \in {"extracted", "downloaded"} :
          fetch' = [fetch EXCEPT !.download = "ok", !.input_file = chosen,
                                 !.phase = "select"]
    /\ UNCHANGED <<pc, fetchOther>>

\* zipfile.BadZipFile is raised again and caught at line 147.
ExtractFails ==
    /\ Fetching("extract")
    /\ fetch' = DownloadFailed(fetch, "BadZipFile")
    /\ UNCHANGED <<pc, fetchOther>>

\* Lines 155-178: the chosen file is read if it exists, else the most recent
\* BV_opendata_*.txt, else FileNotFoundError.
ReadInput ==
    /\ Fetching("select")
    /\ LET exists == fetch.input_file \in {"downloaded", "extracted"} \cup fetch.env.local
           chosen == IF exists THEN fetch.input_file
                     ELSE IF "recent" \in fetch.env.local THEN "recent"
                     ELSE "none"
       IN  /\ fetch' = [fetch EXCEPT !.input_file = IF chosen = "none" THEN @ ELSE chosen,
                                     !.read = chosen, !.phase = "read"]
           /\ pc' = IF chosen = "none" THEN "raised" ELSE "done"
    /\ UNCHANGED fetchOther

NextFetch ==
    \/ ChooseInput
    \/ RequestSucceeds
    \/ RequestFails
    \/ RequestReturnsHtml
    \/ CurlSucceeds
    \/ CurlFails
    \/ ValidateAccepts
    \/ ValidateRejects
    \/ ExtractZip
    \/ ExtractFails
    \/ ReadInput

SpecFetch == InitFetch /\ [][NextFetch]_vars

----------------------------------------------------------------------------
(* pathlib and shutil on a tree of files and directories                   *)
(*                                                                         *)
(* A path is the sequence of its parts.  `files` maps the path of every    *)
(* regular file to its content, `folders` is the set of the directories.   *)

exists(files, folders, path) == path \in DOMAIN files \/ path \in folders

is_file(files, path) == path \in DOMAIN files

is_dir(folders, path) == path \in folders

parent(path) == SubSeq(path, 1, Len(path) - 1)

basename(path) == path[Len(path)]

IsUnder(root, path) == Len(path) > Len(root) /\ SubSeq(path, 1, Len(root)) = root

relative_to(path, root) == SubSeq(path, Len(root) + 1, Len(path))

\* Path.rglob("*"): every file and directory below root, root excluded.
rglob(files, folders, root) == {p \in DOMAIN files \cup folders : IsUnder(root, p)}

\* The path and its ancestors.
Prefixes(path) == {SubSeq(path, 1, i) : i \in 1..Len(path)}

\* What a file-system call leaves behind: the tree and the exception raised.
FsOk(files, folders) == [files |-> files, folders |-> folders, error |-> "none"]

FsRaise(files, folders, error) == [files |-> files, folders |-> folders, error |-> error]

\* Path.mkdir(parents=True, exist_ok=True).  A regular file at the path or at
\* one of its ancestors makes os.mkdir fail before any directory is created.
mkdir_parents(files, folders, path) ==
    IF \E p \in Prefixes(path) : p \in DOMAIN files
    THEN FsRaise(files, folders,
                 IF path \in DOMAIN files THEN "FileExistsError" ELSE "NotADirectoryError")
    ELSE FsOk(files, folders \cup Prefixes(path))

\* Path.write_text / Path.write_bytes: the file is created or replaced.
write_file(files, folders, path, content) ==
    IF path \in folders THEN FsRaise(files, folders, "IsADirectoryError")
    ELSE IF parent(path) \notin folders THEN FsRaise(files, folders, "FileNotFoundError")
    ELSE FsOk([p \in DOMAIN files \cup {path} |-> IF p = path THEN content ELSE files[p]],
              folders)

\* The tree with the files of `gone` unlinked.
Unlinked(files, gone) == [p \in DOMAIN files \ gone |-> files[p]]

----------------------------------------------------------------------------
(* scripts/export_data_repo.py                                             *)

source_root == <<"source">>

data_repo == <<"data">>

\* The prefixes main hands to remove_stale, in the order of lines 124-128.
ManagedPrefixes ==
    << <<"public", "data">>, <<"public", "analyses">>, <<"public", "maps">>,
       <<"public", "press-references">>, <<"analyses">> >>

PublicPrefixes == {<<"public", "data">>, <<"public", "analyses">>, <<"public", "maps">>,
                   <<"public", "press-references">>}

PrefixIndex(dest_prefix) == CHOOSE k \in DOMAIN ManagedPrefixes : ManagedPrefixes[k] = dest_prefix

iter_files(files, folders, root) ==
    IF ~exists(files, folders, root) THEN {}
    ELSE {p \in rglob(files, folders, root) : is_file(files, p)}

ExportItem(src, rel, dest_prefix) == [src |-> src, rel |-> rel, dest_prefix |-> dest_prefix]

\* The items of the four public directories; the list holds them directory
\* by directory, in the order rglob yields them within each.
collect_public_assets(files, folders, root) ==
    UNION {{ExportItem(src, relative_to(src, root \o prefix), prefix) :
                src \in iter_files(files, folders, root \o prefix)} :
           prefix \in PublicPrefixes}

collect_analysis_results(files, folders, root) ==
    LET analyses_root == root \o <<"analyses">>
    IN  {ExportItem(src, relative_to(src, analyses_root), <<"analyses">>) :
            src \in {s \in iter_files(files, folders, analyses_root) :
                        \E i \in DOMAIN relative_to(s, analyses_root) :
                            relative_to(s, analyses_root)[i] = "results"}}

ensure_parent(files, folders, path) == mkdir_parents(files, folders, parent(path))

\* shutil.copy2(src, dest): into the directory if dest is one.
copy2(files, folders, src, dest) ==
    write_file(files, folders, IF dest \in folders THEN dest \o <<basename(src)>> ELSE dest,
               files[src])

ItemDest(item, dest_root) == dest_root \o item.dest_prefix \o item.rel

\* copy_items with the dry run ignored: every item is copied.
CopyItemAlways(files, folders, item, dest_root, dry_run) ==
    LET dest == ItemDest(item, dest_root)
        made == ensure_parent(files, folders, dest)
    IN  IF made.error # "none" THEN made
        ELSE copy2(made.files, made.folders, item.src, dest)

\* The body of the loop of copy_items, lines 59-64, for one item.
copy_item(files, folders, item, dest_root, dry_run) ==
    LET dest == ItemDest(item, dest_root)
        made == ensure_parent(files, folders, dest)
    IN  IF dry_run THEN FsOk(files, folders)
        ELSE IF made.error # "none" THEN made
        ELSE copy2(made.files, made.folders, item.src, dest)

\* remove_stale that spares no .gitkeep file.
RemoveStaleGitkeep(files, folders, dest_root, dest_prefix, expected, dry_run) ==
    LET base == dest_root \o dest_prefix
    IN  IF ~exists(files, folders, base) \/ dry_run THEN files
        ELSE Unlinked(files, {p \in rglob(files, folders, base) :
                                 is_file(files, p) /\ p \notin expected})

\* remove_stale, lines 68-80: the files left in the data repo.
remove_stale(files, folders, dest_root, dest_prefix, expected, dry_run) ==
    LET base == dest_root \o dest_prefix
        stale == {p \in rglob(files, folders, base) :
                     /\ is_file(files, p)
                     /\ basename(p) # ".gitkeep"
                     /\ p \notin expected}
    IN  IF ~exists(files, folders, base) THEN files
        ELSE IF dry_run THEN files
        ELSE Unlinked(files, stale)

\* Files of the source project before the run.
SourceFiles == {
    source_root \o <<"public", "data", "a.json">>,
    source_root \o <<"public", "maps", "m.json">>,
    source_root \o <<"analyses", "x", "results", "r.json">>,
    source_root \o <<"analyses", "x", "src", "s.py">>}

\* Files of the data repo before the run: an earlier export of a.json, files
\* no longer produced, placeholders, and a file outside the managed prefixes.
DataFiles == {
    data_repo \o <<"public", "data", "a.json">>,
    data_repo \o <<"public", "data", "old.json">>,
    data_repo \o <<"public", "data", ".gitkeep">>,
    data_repo \o <<"analyses", "x", "src", "s.py">>,
    data_repo \o <<"analyses", "y", "results", "old.json">>,
    data_repo \o <<"README.md">>}

\* What a file holds: where it was written and its name.
Content(origin, path) == <<origin, basename(path)>>

\* A tree in which every file lies in directories that exist.
TreeOf(roots, present, origin) ==
    [files |-> [p \in present |-> Content(origin[p[1]], p)],
     folders |-> roots \cup UNION {Prefixes(parent(p)) : p \in present}]

ExportArgs == [dry_run : BOOLEAN, clean : BOOLEAN]

ExportOrigin == [source |-> "new", data |-> "old"]

StartExport(args, tree) ==
    [phase |-> "start", args |-> args, before |-> tree, todo |-> {},
     results_items |-> {}, expected_public |-> {}, expected_results |-> {},
     prefix |-> 0, copied |-> {}, error |-> "none"]

toolData == <<script, mapping, call, probe, projects_map, nrows, row, projects,
              ledger, all_data, df, output_files, writer, fetch, monthly>>

InTool(s, phase) == script = s /\ pc = "running" /\ tool.phase = phase

\* main, lines 108-118: the two roots are checked and the items are collected.
ExportMain ==
    /\ InTool("export_data_repo", "start")
    /\ IF ~exists(disk, dirs, source_root) \/ ~exists(disk, dirs, data_repo)
       THEN /\ pc' = "raised"
            /\ tool' = [tool EXCEPT !.phase = "exit", !.error = "SystemExit"]
       ELSE /\ pc' = pc
            /\ tool' = [tool EXCEPT
                          !.phase = "copy_public",
                          !.todo = collect_public_assets(disk, dirs, source_root),
                          !.results_items = collect_analysis_results(disk, dirs, source_root)]
    /\ UNCHANGED <<disk, dirs, step, toolData>>

\* One turn of the loop of copy_items, in the call of line 120 or of line 121.
CopyItem ==
    /\ script = "export_data_repo" /\ pc = "running"
    /\ tool.phase \in {"copy_public", "copy_results"}
    /\ \E item \in tool.todo :
         /\ \A other \in tool.todo :
                PrefixIndex(item.dest_prefix) <= PrefixIndex(other.dest_prefix)
         /\ LET out == copy_item(disk, dirs, item, data_repo, tool.args.dry_run)
                dest == ItemDest(item, data_repo)
            IN  /\ disk' = out.files
                /\ dirs' = out.folders
                /\ pc' = IF out.error = "none" THEN pc ELSE "raised"
                /\ tool' = [tool EXCEPT
                              !.todo = @ \ {item},
                              !.expected_public =
                                  IF tool.phase = "copy_public" THEN @ \cup {dest} ELSE @,
                              !.expected_results =
                                  IF tool.phase = "copy_results" THEN @ \cup {dest} ELSE @,
                              !.copied =
                                  IF ~tool.args.dry_run /\ out.error = "none"
                                  THEN @ \cup {dest} ELSE @,
                              !.error = out.error]
    /\ UNCHANGED <<step, toolData>>

\* copy_items returns; after line 121 main goes on to line 123.
CopyItemsReturn ==
    /\ script = "export_data_repo" /\ pc = "running"
    /\ tool.phase \in {"copy_public", "copy_results"}
    /\ tool.todo = {}
    /\ IF tool.phase = "copy_public"
       THEN /\ tool' = [tool EXCEPT !.phase = "copy_results", !.todo = tool.results_items]
            /\ pc' = pc
       ELSE IF tool.args.clean
       THEN /\ tool' = [tool EXCEPT !.phase = "clean", !.prefix = 1]
            /\ pc' = pc
       ELSE /\ tool' = [tool EXCEPT !.phase = "done"]
            /\ pc' = "done"
    /\ UNCHANGED <<disk, dirs, step, toolData>>

\* One of the five calls of remove_stale, lines 124-128.
RemoveStale ==
    /\ InTool("export_data_repo", "clean")
    /\ LET dest_prefix == ManagedPrefixes[tool.prefix]
           expected == IF dest_prefix \in PublicPrefixes THEN tool.expected_public
                       ELSE tool.expected_results
       IN  disk' = remove_stale(disk, dirs, data_repo, dest_prefix, expected,
                                tool.args.dry_run)
    /\ IF tool.prefix < Len(ManagedPrefixes)
       THEN /\ tool' = [tool EXCEPT !.prefix = @ + 1]
            /\ pc' = pc
       ELSE /\ tool' = [tool EXCEPT !.phase = "done"]
            /\ pc' = "done"
    /\ UNCHANGED <<dirs, step, toolData>>

----------------------------------------------------------------------------
(* scripts/blog_repo_split: utils.py, scaffold.py, sync_shared.py          *)

hub_repo == <<"hub">>

blogs_repo == <<"blogs">>

\* os.path.normpath on the parts of a relative path.
RECURSIVE normalize_path(_)
normalize_path(parts) ==
    IF parts = <<>> THEN <<>>
    ELSE LET front == normalize_path(SubSeq(parts, 1, Len(parts) - 1))
             last == parts[Len(parts)]
         IN  IF last = "." THEN front
             ELSE IF last = ".." /\ front # <<>> /\ front[Len(front)] # ".."
             THEN SubSeq(front, 1, Len(front) - 1)
             ELSE Append(front, last)

resolve_path(base, rel) == normalize_path(base \o rel)

\* A file is text if its first block holds no NUL byte; one that cannot be
\* opened is not.
is_text_file(files, path) == path \in DOMAIN files /\ \A i \in DOMAIN files[path] : files[path][i] # "NUL"

apply_replacements(text, replacements) ==
    List([i \in DOMAIN text |->
            IF text[i] \in DOMAIN replacements THEN replacements[text[i]] ELSE text[i]])

ensure_dir(files, folders, path) == mkdir_parents(files, folders, path)

\* safe_write_text, utils.py lines 39-43.
safe_write_text(files, folders, path, content, force) ==
    IF exists(files, folders, path) /\ ~force THEN FsRaise(files, folders, "FileExistsError")
    ELSE LET made == ensure_dir(files, folders, parent(path))
         IN  IF made.error # "none" THEN made
             ELSE write_file(made.files, made.folders, path, content)

\* safe_copy_file that writes whether or not the destination exists.
SafeCopyOverwrites(files, folders, src, dest, force) ==
    LET made == ensure_dir(files, folders, parent(dest))
    IN  IF made.error # "none" THEN made
        ELSE IF src \notin DOMAIN made.files
        THEN FsRaise(made.files, made.folders, "FileNotFoundError")
        ELSE write_file(made.files, made.folders, dest, made.files[src])

\* safe_copy_file, utils.py lines 46-50: src is read before dest is opened.
safe_copy_file(files, folders, src, dest, force) ==
    IF exists(files, folders, dest) /\ ~force THEN FsRaise(files, folders, "FileExistsError")
    ELSE LET made == ensure_dir(files, folders, parent(dest))
         IN  IF made.error # "none" THEN made
             ELSE IF src \notin DOMAIN made.files
             THEN FsRaise(made.files, made.folders,
                          IF src \in made.folders THEN "IsADirectoryError"
                          ELSE "FileNotFoundError")
             ELSE write_file(made.files, made.folders, dest, made.files[src])

\* scaffold.py lines 22-28.
copy_with_optional_replacements(files, folders, src, dest, replacements, force) ==
    IF is_text_file(files, src)
    THEN safe_write_text(files, folders, dest, apply_replacements(files[src], replacements),
                         force)
    ELSE safe_copy_file(files, folders, src, dest, force)

\* The loop of copy_tree, lines 35-41, over the paths rglob found below src,
\* directories before what they hold.
RECURSIVE CopyPaths(_, _, _, _, _, _)
CopyPaths(files, folders, todo, src, dest, force) ==
    IF todo = {} THEN FsOk(files, folders)
    ELSE LET path == CHOOSE p \in todo : \A q \in todo : Len(p) <= Len(q)
             target == dest \o relative_to(path, src)
             out == IF is_dir(folders, path) THEN ensure_dir(files, folders, target)
                    ELSE safe_copy_file(files, folders, path, target, force)
         IN  IF out.error # "none" THEN out
             ELSE CopyPaths(out.files, out.folders, todo \ {path}, src, dest, force)

\* copy_tree, lines 31-41.  iterdir is called before force is looked at.
copy_tree(files, folders, src, dest, force) ==
    IF is_file(files, dest) THEN FsRaise(files, folders, "NotADirectoryError")
    ELSE IF is_dir(folders, dest) /\ rglob(files, folders, dest) # {} /\ ~force
    THEN FsRaise(files, folders, "FileExistsError")
    ELSE LET made == ensure_dir(files, folders, dest)
         IN  IF made.error # "none" THEN made
             ELSE CopyPaths(made.files, made.folders, rglob(files, folders, src),
                            src, dest, force)

\* sync_shared.py lines 29-30.
sync_file(files, folders, src, dest, force) ==
    LET made == ensure_dir(files, folders, parent(dest))
    IN  IF made.error # "none" THEN made
        ELSE safe_copy_file(made.files, made.folders, src, dest, force)

\* The statements main reaches for a given config, in order.  Each has a
\* dry-run guard in front of it.
ToolStep(op, src, dest, replacements) ==
    [op |-> op, src |-> src, dest |-> dest, replacements |-> replacements]

RECURSIVE ConcatAll(_)
ConcatAll(seqs) == IF seqs = <<>> THEN <<>> ELSE seqs[1] \o ConcatAll(Tail(seqs))

\* scaffold.py lines 89-124 for one blog.
blog_steps(config, blog) ==
    LET target_dir == blogs_repo \o blog.target_dir
        replacements == [key \in {"{{BLOG_ID}}", "{{BLOG_TITLE}}"} |->
                            IF key = "{{BLOG_ID}}" THEN blog.id ELSE blog.title]
        blog_template == config.templates.blog_template
    IN  <<ToolStep("ensure_dir", <<>>, target_dir, <<>>)>>
        \o List([i \in DOMAIN config.blog_subdirs |->
                    ToolStep("ensure_dir", <<>>, target_dir \o <<config.blog_subdirs[i]>>, <<>>)])
        \o (IF blog_template # <<>>
            THEN <<ToolStep("copy", resolve_path(hub_repo, normalize_path(blog_template)),
                            target_dir \o <<"blog.json">>, replacements)>>
            ELSE <<>>)
        \o List([i \in DOMAIN blog.copy |->
                    ToolStep("copy_item",
                             resolve_path(hub_repo, normalize_path(blog.copy[i].from)),
                             target_dir \o normalize_path(blog.copy[i].to), replacements)])

\* scaffold.py lines 64-124.
scaffold_plan(config) ==
    <<ToolStep("ensure_dir", <<>>, blogs_repo, <<>>)>>
    \o List([i \in DOMAIN config.templates.hub |->
                ToolStep("copy", resolve_path(hub_repo, normalize_path(config.templates.hub[i].from)),
                         resolve_path(hub_repo, normalize_path(config.templates.hub[i].to)), <<>>)])
    \o List([i \in DOMAIN config.templates.blogs |->
                ToolStep("copy", resolve_path(hub_repo, normalize_path(config.templates.blogs[i].from)),
                         resolve_path(blogs_repo, normalize_path(config.templates.blogs[i].to)), <<>>)])
    \o ConcatAll(List([i \in DOMAIN config.blogs |-> blog_steps(config, config.blogs[i])]))

\* sync_shared.py lines 24-30.
sync_plan(config) ==
    List([i \in DOMAIN config.shared_files |->
            ToolStep("sync", resolve_path(hub_repo, normalize_path(config.shared_files[i].from)),
                     resolve_path(blogs_repo, normalize_path(config.shared_files[i].to)), <<>>)])

FromTo(from, to) == [from |-> from, to |-> to]

\* Two contents of config.json.
Configs == {
    [templates |-> [hub |-> <<FromTo(<<"tpl", "hub.yml">>, <<".github", "hub.yml">>)>>,
                    blogs |-> <<FromTo(<<"tpl", "README.md">>, <<"README.md">>)>>,
                    blog_template |-> <<"tpl", "blog.json">>],
     blog_subdirs |-> <<"content">>,
     blogs |-> <<[id |-> "b1", title |-> "Blog 1", target_dir |-> <<"b1">>,
                  copy |-> <<FromTo(<<"posts">>, <<"posts">>)>>]>>,
     shared_files |-> <<FromTo(<<"shared", "a.ts">>, <<"shared", "a.ts">>),
                        FromTo(<<".", "shared", "a.ts">>, <<"lib", "..", "shared", "a.ts">>)>>],
    [templates |-> [hub |-> <<>>,
                    blogs |-> <<FromTo(<<"tpl", "README.md">>, <<"README.md">>)>>,
                    blog_template |-> <<>>],
     blog_subdirs |-> <<>>,
     blogs |-> <<[id |-> "b1", title |-> "b1", target_dir |-> <<"b1">>,
                  copy |-> <<FromTo(<<"assets", "logo.bin">>, <<"logo.bin">>)>>]>>,
     shared_files |-> <<FromTo(<<"shared", "a.ts">>, <<"shared", "a.ts">>)>>]}

\* The files of the hub repo that the configs copy from, with their content.
HubContent ==
    [p \in {hub_repo \o <<"tpl", "hub.yml">>, hub_repo \o <<"tpl", "README.md">>,
            hub_repo \o <<"tpl", "blog.json">>, hub_repo \o <<"posts", "p1.md">>,
            hub_repo \o <<"assets", "logo.bin">>, hub_repo \o <<"shared", "a.ts">>} |->
        IF basename(p) = "blog.json" THEN <<"{{BLOG_ID}}", ":", "{{BLOG_TITLE}}">>
        ELSE IF basename(p) = "logo.bin" THEN <<"NUL", "png">>
        ELSE <<"hub", basename(p)>>]

\* Source files that a run may find missing.
OptionalHubFiles == {hub_repo \o <<"assets", "logo.bin">>}

\* BlogDestinations that may exist before the run.
BlogDestinations == {
    hub_repo \o <<".github", "hub.yml">>,
    blogs_repo \o <<"README.md">>,
    blogs_repo \o <<"b1", "blog.json">>,
    blogs_repo \o <<"b1", "posts", "p1.md">>,
    blogs_repo \o <<"b1", "logo.bin">>,
    blogs_repo \o <<"shared", "a.ts">>}

\* Directories that may exist before the run without holding a file.
EmptyFolders == {blogs_repo \o <<"b1", "posts">>}

BlogTree(missing, present, empty) ==
    LET paths == (DOMAIN HubContent \ missing) \cup present
    IN  [files |-> [p \in paths |-> IF p \in present THEN <<"old">> ELSE HubContent[p]],
         folders |-> {hub_repo} \cup UNION {Prefixes(parent(p)) : p \in paths}
                        \cup UNION {Prefixes(p) : p \in empty}]

BlogArgs == [dry_run : BOOLEAN, force : BOOLEAN]

StartBlogTool(args, tree, plan) ==
    [phase |-> "run", args |-> args, before |-> tree, plan |-> plan, actions |-> <<>>,
     error |-> "none"]

BlogScripts == {"scaffold", "sync_shared"}

ToolScripts == {"export_data_repo"} \cup BlogScripts

InitTools ==
    /\ script \in ToolScripts
    /\ pc = "running"
    /\ mapping = <<>>
    /\ call = NoCall
    /\ probe = NoCall
    /\ projects_map = <<>>
    /\ nrows = 0
    /\ row = NoRow
    /\ projects = <<>>
    /\ ledger = NoLedger
    /\ all_data = <<>>
    /\ df = <<>>
    /\ output_files = <<>>
    /\ writer = NoWriter
    /\ fetch = NoFetch
    /\ monthly = NoMonthly
    /\ IF script = "export_data_repo"
       THEN \E roots \in {{source_root, data_repo}, {source_root}, {data_repo}},
               sources \in SUBSET SourceFiles, data \in SUBSET DataFiles,
               args \in ExportArgs :
              /\ source_root \notin roots => sources = {}
              /\ data_repo \notin roots => data = {}
              /\ LET tree == TreeOf(roots, sources \cup data, ExportOrigin)
                 IN  /\ disk = tree.files
                     /\ dirs = tree.folders
                     /\ tool = StartExport(args, tree)
              /\ step = 0
       ELSE \E missing \in SUBSET OptionalHubFiles, present \in SUBSET BlogDestinations,
               empty \in SUBSET EmptyFolders, args \in BlogArgs, config \in Configs :
              /\ LET tree == BlogTree(missing, present, empty)
                 IN  /\ disk = tree.files
                     /\ dirs = tree.folders
                     /\ tool = StartBlogTool(args, tree,
                                             IF script = "scaffold" THEN scaffold_plan(config)
                                             ELSE sync_plan(config))
              /\ step = 1

BlogRunning == script \in BlogScripts /\ pc = "running"

ToolStatement == tool.plan[step]

\* The statement is recorded and, unless it raised, the run goes on.
AfterStatement(out) ==
    /\ disk' = out.files
    /\ dirs' = out.folders
    /\ tool' = [tool EXCEPT !.actions = Append(@, ToolStatement.op), !.error = out.error]
    /\ pc' = IF out.error # "none" THEN "raised"
             ELSE IF step = Len(tool.plan) THEN "done" ELSE pc
    /\ step' = IF out.error = "none" /\ step < Len(tool.plan) THEN step + 1 ELSE step
    /\ UNCHANGED toolData

\* `if not args.dry_run` is false: the action is only recorded.
DryRunStatement ==
    /\ BlogRunning
    /\ tool.args.dry_run
    /\ AfterStatement(FsOk(disk, dirs))

\* scaffold.py lines 67, 100, 106.
ScaffoldEnsureDir ==
    /\ BlogRunning
    /\ ~tool.args.dry_run
    /\ ToolStatement.op = "ensure_dir"
    /\ AfterStatement(ensure_dir(disk, dirs, ToolStatement.dest))

\* scaffold.py lines 75, 83, 112, 124.
ScaffoldCopy ==
    /\ BlogRunning
    /\ ~tool.args.dry_run
    /\ \/ ToolStatement.op = "copy"
       \/ ToolStatement.op = "copy_item" /\ ~is_dir(dirs, ToolStatement.src)
    /\ AfterStatement(copy_with_optional_replacements(disk, dirs, ToolStatement.src,
                          ToolStatement.dest, ToolStatement.replacements, tool.args.force))

\* scaffold.py line 120.
ScaffoldCopyTree ==
    /\ BlogRunning
    /\ ~tool.args.dry_run
    /\ ToolStatement.op = "copy_item"
    /\ is_dir(dirs, ToolStatement.src)
    /\ AfterStatement(copy_tree(disk, dirs, ToolStatement.src, ToolStatement.dest,
                                tool.args.force))

\* sync_shared.py lines 29-30.
SyncSharedCopy ==
    /\ BlogRunning
    /\ ~tool.args.dry_run
    /\ ToolStatement.op = "sync"
    /\ AfterStatement(sync_file(disk, dirs, ToolStatement.src, ToolStatement.dest,
                                tool.args.force))

NextTools ==
    \/ ExportMain
    \/ CopyItem
    \/ CopyItemsReturn
    \/ RemoveStale
    \/ DryRunStatement
    \/ ScaffoldEnsureDir
    \/ ScaffoldCopy
    \/ ScaffoldCopyTree
    \/ SyncSharedCopy

SpecTools == InitTools /\ [][NextTools]_vars

----------------------------------------------------------------------------
(* The per-municipality monthly series: vergunningen-goedkeuringen          *)
(* process_data lines 290-305 and scripts/postprocess_vergunningen.py       *)
(* lines 17-44                                                              *)

\* Rows of the monthly table a run starts from.
MaxMonthlyRows == 3

MonthlyYears == {2018, 2019, 2020}

MonthlyMonths == {1, 2}

MunicipalityCodes == {1001, 11001}

\* One row of the monthly table; the summed columns are stood for by `ren`.
MonthlyRow(y, mo, m) == [y |-> y, mo |-> mo, m |-> m, ren |-> 10 * mo + (y % 10)]

MonthlyRows == {MonthlyRow(y, mo, m) : y \in MonthlyYears, mo \in MonthlyMonths,
                                       m \in MunicipalityCodes}

\* Lists of distinct rows, in any order.
MonthlyLists ==
    UNION {{rows \in [1..n -> MonthlyRows] :
               \A i, j \in 1..n : i # j => rows[i] # rows[j]} : n \in 0..MaxMonthlyRows}

\* df_month comes out of groupby(['CD_YEAR', 'mo', 'CD_REFNIS_MUNICIPALITY',
\* 'REFNIS_NL']).sum().reset_index() (lines 238-240): one row per key, in
\* ascending key order.
MonthlyFrames ==
    {rows \in MonthlyLists :
        \A i \in 1..(Len(rows) - 1) :
            TupleLess(<<OrdInt(rows[i].y), OrdInt(rows[i].mo), OrdInt(rows[i].m)>>,
                      <<OrdInt(rows[i + 1].y), OrdInt(rows[i + 1].mo), OrdInt(rows[i + 1].m)>>)}

\* The municipality column is int64, or float64 when the source column had
\* empty cells; json.dump writes the latter as 11001.0.
CodeTypes == {"int64", "float64"}

DigitChars == <<"0", "1", "2", "3", "4", "5", "6", "7", "8", "9">>

\* str(n) of an int n >= 0.
RECURSIVE IntStr(_)
IntStr(n) == IF n < 10 THEN <<DigitChars[n + 1]>>
             ELSE IntStr(n \div 10) \o <<DigitChars[(n % 10) + 1]>>

\* str(m) of a whole number read from JSON as int or as float.
NumberStr(m, dtype) == IF dtype = "float64" THEN IntStr(m) \o <<".", "0">> ELSE IntStr(m)

RECURSIVE zfill(_, _)
zfill(chars, width) == IF Len(chars) >= width THEN chars ELSE zfill(<<"0">> \o chars, width)

JsonName(stem) == stem \o <<".", "j", "s", "o", "n">>

RowKey(r) == <<OrdInt(r.y), OrdInt(r.mo)>>

SortedByMonth(rows) == PySorted(rows, List([i \in DOMAIN rows |-> RowKey(rows[i])]))

YearsOf(series) ==
    <<SetMin({series[i].y : i \in DOMAIN series}), SetMax({series[i].y : i \in DOMAIN series})>>

IndexEntry(code, series) == [code |-> code, file |-> JsonName(code), years |-> YearsOf(series)]

\* A filter that also keeps the rows of 2018.
KeepFrom2018(df_month) ==
    LET Keep(r) == r.y >= 2018
    IN  SelectSeq(df_month, Keep)

\* Line 295: df_month[df_month['y'] > 2018].
df_month_for_mun(df_month) ==
    LET Keep(r) == r.y > 2018
    IN  SelectSeq(df_month, Keep)

\* Lines 298-299: the sorted group without its `m` column, and its file name.
municipality_series(rows, mun_code) ==
    LET InGroup(r) == r.m = mun_code
        grp == SortedByMonth(SelectSeq(rows, InGroup))
    IN  List([i \in DOMAIN grp |-> [y |-> grp[i].y, mo |-> grp[i].mo, ren |-> grp[i].ren]])

municipality_code(mun_code) == zfill(IntStr(mun_code), 5)

\* postprocess line 18: [r for r in md if r.get('y', 0) > 2018].
filtered(md) ==
    LET Keep(r) == r.y > 2018
    IN  SelectSeq(md, Keep)

\* postprocess lines 28-30: the keys of by_m, in order of first appearance.
by_m_keys(rows, dtype) == Unique(List([i \in DOMAIN rows |-> NumberStr(rows[i].m, dtype)]))

\* postprocess lines 32-33: the rows of one key, sorted.
rows_sorted(rows, dtype, m) ==
    LET InGroup(r) == NumberStr(r.m, dtype) = m
    IN  SortedByMonth(SelectSeq(rows, InGroup))

NoMunicipalityFiles == [municipality |-> <<>>, municipality_index |-> "unwritten"]

WithFile(files, file_name, content) ==
    [f \in DOMAIN files \cup {file_name} |-> IF f = file_name THEN content ELSE files[f]]

MonthlyScripts == {"approvals_monthly", "postprocess_monthly"}

InitMonthly ==
    /\ script \in MonthlyScripts
    /\ pc = "running"
    /\ mapping = <<>>
    /\ call = NoCall
    /\ probe = NoCall
    /\ projects_map = <<>>
    /\ nrows = 0
    /\ row = NoRow
    /\ projects = <<>>
    /\ ledger = NoLedger
    /\ all_data = <<>>
    /\ df \in (IF script = "approvals_monthly" THEN MonthlyFrames ELSE MonthlyLists)
    /\ output_files = NoMunicipalityFiles
    /\ disk = <<>>
    /\ writer = NoWriter
    /\ dirs = {}
    /\ step = 0
    /\ fetch = NoFetch
    /\ tool = NoTool
    /\ \E dtype \in CodeTypes : monthly = [NoMonthly EXCEPT !.dtype = dtype]

monthlyOther == <<script, mapping, call, probe, projects_map, nrows, row, projects,
                  ledger, all_data, df, disk, writer, dirs, fetch, tool>>

InMonthly(s) == script = s /\ pc = "running"

\* process_data lines 295-297: the filter, the empty index and the groups of
\* groupby('m'), in ascending order of the code.
FilterMonthlyFrame ==
    /\ InMonthly("approvals_monthly")
    /\ step = 0
    /\ LET kept == df_month_for_mun(df)
       IN  monthly' = [monthly EXCEPT
                          !.rows = kept,
                          !.groups = LET keys == GroupKeys(List([i \in DOMAIN kept |-> <<OrdInt(kept[i].m)>>]))
                                     IN  List([i \in DOMAIN keys |-> keys[i][1][1]])]
    /\ step' = 1
    /\ UNCHANGED <<pc, output_files, monthlyOther>>

\* process_data lines 297-302: one turn of the loop over the groups.
WriteMunicipalitySeries ==
    /\ InMonthly("approvals_monthly")
    /\ step \in DOMAIN monthly.groups
    /\ LET mun_code == monthly.groups[step]
           series == municipality_series(monthly.rows, mun_code)
           entry == IndexEntry(municipality_code(mun_code), series)
       IN  /\ output_files' = [output_files EXCEPT
                                  !.municipality = WithFile(@, entry.file, series)]
           /\ monthly' = [monthly EXCEPT !.municipality_index = Append(@, entry)]
    /\ step' = step + 1
    /\ UNCHANGED <<pc, monthlyOther>>

\* process_data lines 304-305.
WriteMunicipalityIndex ==
    /\ InMonthly("approvals_monthly")
    /\ step = Len(monthly.groups) + 1
    /\ output_files' = [output_files EXCEPT !.municipality_index = monthly.municipality_index]
    /\ pc' = "done"
    /\ UNCHANGED <<step, monthly, monthlyOther>>

\* postprocess lines 17-31: the filter, the groups of by_m, the empty index.
PostprocessFilter ==
    /\ InMonthly("postprocess_monthly")
    /\ step = 0
    /\ LET kept == filtered(df)
       IN  monthly' = [monthly EXCEPT !.rows = kept,
                                      !.groups = by_m_keys(kept, monthly.dtype)]
    /\ step' = 1
    /\ UNCHANGED <<pc, output_files, monthlyOther>>

\* postprocess lines 32-41: one turn of the loop over by_m; the same list
\* goes to results/municipality and to the public directory.
PostprocessMunicipality ==
    /\ InMonthly("postprocess_monthly")
    /\ step \in DOMAIN monthly.groups
    /\ LET m == monthly.groups[step]
           series == rows_sorted(monthly.rows, monthly.dtype, m)
           entry == IndexEntry(zfill(m, 5), series)
       IN  /\ output_files' = [output_files EXCEPT
                                  !.municipality = WithFile(@, entry.file, series)]
           /\ monthly' = [monthly EXCEPT !.municipality_index = Append(@, entry)]
    /\ step' = step + 1
    /\ UNCHANGED <<pc, monthlyOther>>

\* postprocess lines 43-44.
PostprocessIndex ==
    /\ InMonthly("postprocess_monthly")
    /\ step = Len(monthly.groups) + 1
    /\ output_files' = [output_files EXCEPT !.municipality_index = monthly.municipality_index]
    /\ pc' = "done"
    /\ UNCHANGED <<step, monthly, monthlyOther>>

NextMonthly ==
    \/ FilterMonthlyFrame
    \/ WriteMunicipalitySeries
    \/ WriteMunicipalityIndex
    \/ PostprocessFilter
    \/ PostprocessMunicipality
    \/ PostprocessIndex

SpecMonthly == InitMonthly /\ [][NextMonthly]_vars

----------------------------------------------------------------------------
(* Claims about the classifier                                             *)

InMapping(cs) == cs \in DOMAIN POLICY_DOMAIN_MAPPING

\* The keys the four steps look up, in the order of the claim: the secondary
\* key, its prefix (first token, or first 3 characters without a space), the
\* primary key, its prefix (first token, or first 2 characters).  A falsy
\* secondary key contributes no step.
StepKeys(d, s) ==
    (IF Truthy(s)
     THEN <<s.chars, IF HasSpace(s.chars) THEN FirstToken(s.chars)
                     ELSE Slice(s.chars, 3)>>
     ELSE <<>>)
    \o <<d.chars, IF HasSpace(d.chars) THEN FirstToken(d.chars)
                  ELSE Slice(d.chars, 2)>>

MatchingSteps(d, s) ==
    {i \in 1..Len(StepKeys(d, s)) : InMapping(StepKeys(d, s)[i])}

FirstMatchCategory(d, s) ==
    POLICY_DOMAIN_MAPPING[StepKeys(d, s)[SetMin(MatchingSteps(d, s))]]

\* The call's arguments let every step compute its key (no blank key).
StepsDefined(d, s) ==
    /\ Truthy(d) /\ ~SplitIsEmpty(d.chars)
    /\ Truthy(s) => ~SplitIsEmpty(s.chars)

\* C1: with a non-empty primary key, a call that returns gives the category
\* of the first of the four steps (secondary exact, secondary prefix, primary
\* exact, primary prefix) whose key is in the mapping; later steps do not
\* change the result.
C1_FirstMatchingStepWins ==
    (/\ call.made
     /\ StepsDefined(call.beleidsdomein, call.beleidssubdomein)
     /\ MatchingSteps(call.beleidsdomein, call.beleidssubdomein) # {})
    => call.outcome = Returned(<<FirstMatchCategory(call.beleidsdomein,
                                                    call.beleidssubdomein)>>)

\* A secondary key that matches only by its prefix overrode a primary key
\* that matches with another category.
C1_Witness ==
    /\ call.made
    /\ StepsDefined(call.beleidsdomein, call.beleidssubdomein)
    /\ Truthy(call.beleidssubdomein)
    /\ MatchingSteps(call.beleidsdomein, call.beleidssubdomein) = {2, 4}
    /\ POLICY_DOMAIN_MAPPING[StepKeys(call.beleidsdomein, call.beleidssubdomein)[4]]
         # FirstMatchCategory(call.beleidsdomein, call.beleidssubdomein)
    /\ call.outcome = Returned(<<FirstMatchCategory(call.beleidsdomein,
                                                    call.beleidssubdomein)>>)

\* Rows whose primary key process_projects found empty or missing.
EmptyPrimaryStatuses == {"skipped_no_policy", "raised_beleidsdomein"}

C3_SingleCategory ==
    call.made => (~call.outcome.raised /\ Len(call.outcome.value) = 1)

\* C4: a call none of whose steps matches returns the default category, and
\* no call raises.
C4_DefaultNeverFatal ==
    call.made =>
        /\ ~call.outcome.raised
        /\ (/\ StepsDefined(call.beleidsdomein, call.beleidssubdomein)
            /\ MatchingSteps(call.beleidsdomein, call.beleidssubdomein) = {})
             => call.outcome = Returned(<<"overige">>)

----------------------------------------------------------------------------
(* Claims about the aggregations                                           *)

Done(s) == script = s /\ pc = "done"

\* The sum of values[i] over the indices i in idx.
RECURSIVE SumAt(_, _)
SumAt(values, idx) ==
    IF idx = {} THEN 0
    ELSE LET i == CHOOSE i \in idx : TRUE
         IN  values[i] + SumAt(values, idx \ {i})

Indices(s) == 1..Len(s)

Rows(s) == {s[i] : i \in Indices(s)}

\* The records of all_data with the group key of entry e, and the sum of
\* their counts.
SameDetailedKey(e) ==
    {i \in Indices(all_data) : /\ all_data[i].year = e.year
                               /\ all_data[i].type = e.type
                               /\ all_data[i].gender = e.gender}

Counts == [i \in Indices(all_data) |-> all_data[i].count]

\* The rows of df that line 96 keeps, those with the group key of entry e,
\* and the columns of df with 0 for the NaN cells.
Nieuwbouw ==
    {i \in Indices(df) : /\ df[i].handeling = "Nieuwbouw"
                         /\ df[i].gebouw_functie \in woningen_functies}

SameQuarter(e) == {i \in Nieuwbouw : df[i].jaar = e.y /\ df[i].kwartaal_nr = e.q}

Projecten == [i \in Indices(df) |-> CellValue(df[i].aantal_projecten)]

Gebouwen == [i \in Indices(df) |-> CellValue(df[i].aantal_gebouwen)]

Wooneenheden == [i \in Indices(df) |-> CellValue(df[i].aantal_wooneenheden)]

Woonoppervlakte == [i \in Indices(df) |-> CellValue(df[i].woonoppervlakte_m2)]

\* One entry per group key present in the input, none for another key;
\* keys[i] is the group key of the series' entry i.
OnePerKey(keys, present) ==
    /\ \A k \in present : \E i \in Indices(keys) : keys[i] = k
    /\ \A i \in Indices(keys) : keys[i] \in present
    /\ \A i, j \in Indices(keys) : keys[i] = keys[j] => i = j

DetailedKeys == {<<all_data[i].year, all_data[i].type, all_data[i].gender>> :
                    i \in Indices(all_data)}

QuarterKeys == {<<df[i].jaar, df[i].kwartaal_nr>> : i \in Nieuwbouw}

DetailedOnePerKey ==
    LET series == output_files["time_series_detailed.json"]
    IN  OnePerKey([i \in Indices(series) |->
                      <<series[i].year, series[i].type, series[i].gender>>],
                  DetailedKeys)

QuarterlyOnePerKey ==
    LET series == output_files["nieuwbouw_quarterly.json"]
    IN  OnePerKey([i \in Indices(series) |-> <<series[i].y, series[i].q>>],
                  QuarterKeys)

ExportedYearTotal ==
    LET total == output_files["time_series_total.json"]
    IN  SumAt([i \in Indices(total) |-> total[i].count], Indices(total))

InputYearTotal == SumAt(Counts, Indices(all_data))

InYear(y) == {i \in Indices(all_data) : all_data[i].year = y}

\* The sum of the exported project totals, the amounts of the accepted rows,
\* and the accepted rows of a project or of one of its fiscal years.
ExportedProjectTotal ==
    SumAt([i \in Indices(projects) |-> projects[i].total_amount], Indices(projects))

Amounts == [i \in Indices(ledger.accepted) |-> ledger.accepted[i].amount]

OfProject(p) ==
    {i \in Indices(ledger.accepted) : ledger.accepted[i].project_key = p.project_key}

OfProjectYear(p, y) == {i \in OfProject(p) : ledger.accepted[i].fiscal_year = y}

Ascending(keys) ==
    \A i \in 1..(Len(keys) - 1) : TupleLess(keys[i], keys[i + 1])

\* The position of a building type in `residential`, which lists the types
\* in ascending str order.
TypeIndex(b) == CHOOSE k \in 1..Len(residential) : residential[k] = b

EmploymentSeriesAscending ==
    LET detailed == output_files["time_series_detailed.json"]
        by_type == output_files["time_series_by_type.json"]
        total == output_files["time_series_total.json"]
        latest == output_files["province_latest.json"]
        by_province == output_files["time_series_by_province.json"]
    IN  /\ Ascending([i \in Indices(detailed) |->
                <<OrdInt(detailed[i].year), OrdStr(detailed[i].type),
                  OrdStr(detailed[i].gender)>>])
        /\ Ascending([i \in Indices(by_type) |->
                <<OrdInt(by_type[i].year), OrdStr(by_type[i].type)>>])
        /\ Ascending([i \in Indices(total) |-> <<OrdInt(total[i].year)>>])
        /\ Ascending([i \in Indices(latest) |->
                <<OrdStr(latest[i].province), OrdStr(latest[i].type)>>])
        /\ Ascending([i \in Indices(by_province) |->
                <<OrdInt(by_province[i].year), OrdStr(by_province[i].province),
                  OrdStr(by_province[i].type)>>])

QuarterlyAscending ==
    LET series == output_files["nieuwbouw_quarterly.json"]
    IN  Ascending([i \in Indices(series) |->
            <<OrdInt(series[i].y), OrdInt(series[i].q)>>])

Shares == output_files["residential_aa_share.json"]

\* C8 as stated: every exported series is sorted ascending by its key tuple.
C8_Original ==
    /\ Done("employment") => EmploymentSeriesAscending
    /\ Done("permits") => QuarterlyAscending
    /\ Done("epc") =>
        Ascending([i \in Indices(Shares) |->
            <<OrdInt(Shares[i].year), OrdInt(TypeIndex(Shares[i].building_type))>>])

\* C8 amended: the series of the employment script and the quarterly permit
\* series are sorted ascending by their key tuple; the EPC share series is
\* sorted by year descending and, within a year, by building type in the
\* order of the script's list.
C8_SeriesOrder ==
    /\ Done("employment") => EmploymentSeriesAscending
    /\ Done("permits") => QuarterlyAscending
    /\ Done("epc") =>
        Ascending([i \in Indices(Shares) |->
            <<OrdInt(-Shares[i].year), OrdInt(TypeIndex(Shares[i].building_type))>>])

\* The EPC series was exported with two years.
C8_Witness ==
    /\ Done("epc")
    /\ Len(Shares) = 2
    /\ Shares[1].year # Shares[2].year

----------------------------------------------------------------------------
(* Claims about the export step                                            *)

\* C10: after a write attempt, whether it succeeded or failed at any point,
\* every destination file holds its complete new content or exactly its
\* previous content, or is absent if it was absent: never a truncated or
\* half-serialised payload.
C10_NeverPartialFile ==
    pc \in {"done", "raised"} =>
        \A path \in {"results", "public"} :
            IF path \in DOMAIN disk
            THEN \/ disk[path] = Encode(writer.data)
                 \/ (path \in DOMAIN writer.previous
                        /\ disk[path] = writer.previous[path])
            ELSE path \notin DOMAIN writer.previous

----------------------------------------------------------------------------
(* Claims about output directories, output files and input files           *)

\* C11: no run fails because the directory of a file it writes (or a parent
\* of a directory it creates) is absent: every script creates the
\* destination directory before it writes.
C11_DirectoryCreated ==
    ~(pc = "raised" /\ writer.error = "no_directory")

\* An output file the run found complete, or did not find.
SoundAtStart(path) ==
    path \in DOMAIN writer.previous => Complete(writer.previous[path])

\* C12: whenever no file is being written (between two statements, and
\* after a run ended or failed at any statement), every output file that
\* exists is a complete payload.
C12_EveryFileComplete ==
    (script \in RunScripts /\ writer.handle = "closed")
    => \A path \in Outputs(script) \cap DOMAIN disk :
          SoundAtStart(path) => Complete(disk[path])

\* C15: a run that stopped because an input file is missing or unreadable
\* created and modified no output file.
C15_NoOutputOnBadInput ==
    (/\ script \in RunScripts
     /\ pc = "raised"
     /\ writer.error \in {"missing_input", "unreadable_input"})
    => \A path \in Outputs(script) :
          IF path \in DOMAIN disk
          THEN path \in DOMAIN writer.previous /\ disk[path] = writer.previous[path]
          ELSE path \notin DOMAIN writer.previous

----------------------------------------------------------------------------
(* Claims about the download and the choice of the input file              *)

\* C13: download_with_requests makes at most max_retries attempts, sleeps
\* between two failed attempts for a delay that doubles (2, 4, ...), and ends
\* by returning True or False: it never ends in another way.
C13_BoundedRetries ==
    /\ fetch.attempt <= max_retries
    /\ Len(fetch.slept) <= max_retries - 1
    /\ \A i \in 1..Len(fetch.slept) :
          fetch.slept[i] = IF i = 1 THEN first_retry_delay ELSE 2 * fetch.slept[i - 1]
    /\ fetch.requests \in {"none", "true", "false"}

\* C14: when the HTTP GET download did not succeed and the download is
\* declared failed, the curl fallback was attempted.
C14_CurlBeforeFailure ==
    (fetch.requests \in {"false", "raised"} /\ fetch.download = "failed")
    => fetch.curl # "none"

\* C17: when INPUT_FILE_PATH names an existing file and the download from
\* INPUT_URL succeeded, the file read is the one INPUT_FILE_PATH names.
C17_OverrideFirst ==
    (/\ fetch.env.override
     /\ "override" \in fetch.env.local
     /\ fetch.download = "ok"
     /\ fetch.read # "none")
    => fetch.read = "override"

----------------------------------------------------------------------------
(* Claims about unparseable values and about the projects                  *)

\* A text cell that float() rejects after parse_dutch_number normalised it.
UnparseableAmount(cell) ==
    /\ cell.kind = "str"
    /\ ~PyFloat(ReplaceChar(RemoveChar(Strip(cell.chars), "."), ",", ".")).ok

\* A non-empty text cell of column U that float() rejects.
UnparseableCount(cell) ==
    /\ cell.kind = "str"
    /\ cell.chars # <<>>
    /\ ~PyFloat(cell.chars).ok

\* float(value) of a cell of column U that holds a number.
CountOf(cell) == IF cell.kind = "num" THEN cell.num ELSE PyFloat(cell.chars).value

TotalAmount(pm) == SeqSum(List([i \in 1..Len(pm) |-> pm[i].total_amount]))

\* A row of a province sheet adds nothing to the records when its value is
\* unparseable, and one record with its full value when its province is
\* kept and its value is a number.
C16_SheetRows ==
    script = "employment"
    => \A year \in ExcelYears, s \in 1..Len(SHEETS), idx \in 1..Len(ProvinceRows) :
         \A value \in ValueCells :
            LET next == process_excel_file(all_data, year, SHEETS[s],
                                           ProvinceRows[idx], value)
                kept == /\ ProvinceRows[idx].kind = "str"
                        /\ Strip(ProvinceRows[idx].chars) \in PROVINCE_NAMES
            IN  /\ UnparseableCount(value) => next = all_data
                /\ (kept /\ (value.kind = "num" \/ (value.kind = "str" /\ PyFloat(value.chars).ok /\ value.chars # <<>>)))
                   => /\ Len(next) = Len(all_data) + 1
                      /\ SubSeq(next, 1, Len(all_data)) = all_data
                      /\ next[Len(next)].count = CountOf(value)

\* A row of process_projects with an unparseable amount is skipped: the
\* projects are unchanged and the loop goes on; an accepted row adds its
\* full amount to the projects.
C16_ProjectRows ==
    (script = "projects" /\ nrows' = nrows + 1)
    => /\ UnparseableAmount(row'.uitgave)
          => /\ row'.status = "skipped_amount"
             /\ projects_map' = projects_map
             /\ pc' = "running"
       /\ row'.status = "accepted"
          => /\ row'.amount = parse_dutch_number(row'.uitgave)
             /\ TotalAmount(projects_map') = TotalAmount(projects_map) + row'.amount

YearlySum(p) == SumAt(p.yearly_amounts, DOMAIN p.yearly_amounts)

\* Exactly one returned project per distinct (municipality, action code) of
\* the accepted rows.
OneProjectPerKey ==
    /\ {projects[i].project_key : i \in Indices(projects)}
         = {ledger.accepted[i].project_key : i \in Indices(ledger.accepted)}
    /\ \A i, j \in Indices(projects) :
          projects[i].project_key = projects[j].project_key => i = j
    /\ \A i \in Indices(projects) :
          projects[i].project_key = <<projects[i].municipality, projects[i].ac_code>>

Saved == script = "projects" /\ pc = "done" /\ output_files # <<>>

RECURSIVE Flatten(_)
Flatten(lists) == IF lists = <<>> THEN <<>> ELSE Head(lists) \o Flatten(Tail(lists))

\* C19: the chunks partition the list of projects sorted by total_amount
\* descending: every project is in exactly one chunk file, chunk i holds
\* positions i*chunk_size .. (i+1)*chunk_size-1 of the sorted list, every
\* chunk but the last holds chunk_size projects, none is empty, and the
\* metadata's chunks and total_projects are the number of chunk files and of
\* projects in them.
C19_ChunksPartition ==
    Saved =>
        LET chunks == output_files.chunks
            size == output_files.metadata.chunk_size
            flat == Flatten(chunks)
        IN  /\ Len(flat) = Len(projects)
            /\ \A i \in Indices(projects) :
                  Cardinality({<<c, k>> \in Indices(chunks) \X Indices(flat) :
                                  k <= Len(chunks[c]) /\ chunks[c][k] = projects[i]}) = 1
            /\ \A k \in 1..(Len(flat) - 1) :
                  flat[k].total_amount >= flat[k + 1].total_amount
            /\ \A c \in Indices(chunks) :
                  /\ chunks[c] # <<>>
                  /\ c < Len(chunks) => Len(chunks[c]) = size
                  /\ Len(chunks[c]) <= size
                  /\ \A k \in Indices(chunks[c]) : chunks[c][k] = flat[(c - 1) * size + k]
            /\ output_files.metadata.chunks = Len(chunks)
            /\ output_files.metadata.total_projects = Len(flat)

\* Two projects given in ascending order of amount were written to two
\* chunk files, the larger first.
C19_Witness ==
    /\ Saved
    /\ Len(projects) = 2
    /\ projects[1].total_amount < projects[2].total_amount
    /\ Len(output_files.chunks) = 2
    /\ output_files.chunks[1] = <<projects[2]>>

\* The projects whose category list contains an id.
InCategory(cat_id) ==
    {i \in Indices(projects) : InSeq(cat_id, projects[i].categories)}

\* C20: the summary has an entry for every key of CATEGORY_DEFINITIONS and
\* for 'overige', also without projects, and each entry's project_count and
\* total_amount are the number and the summed total_amount of exactly the
\* projects whose category list contains the id.
C20_CategorySummaries ==
    Saved =>
        LET summaries == output_files.metadata.categories
        IN  /\ DOMAIN summaries = {CategoryIds[i] : i \in Indices(CategoryIds)} \cup {"overige"}
            /\ Cardinality(DOMAIN summaries) = Len(CategoryIds) + 1
            /\ \A cat_id \in DOMAIN summaries :
                  /\ summaries[cat_id].id = cat_id
                  /\ summaries[cat_id].project_count = Cardinality(InCategory(cat_id))
                  /\ summaries[cat_id].total_amount
                       = SumAt([i \in Indices(projects) |-> projects[i].total_amount],
                               InCategory(cat_id))

\* Two projects of different categories were summarized: each of the two
\* categories counts one project, and a category without project has an
\* entry with count 0.
C20_Witness ==
    /\ Saved
    /\ Len(projects) = 2
    /\ projects[1].categories # projects[2].categories
    /\ output_files.metadata.categories[projects[1].categories[1]].project_count = 1
    /\ \E cat_id \in DOMAIN output_files.metadata.categories :
          output_files.metadata.categories[cat_id].project_count = 0

----------------------------------------------------------------------------
(* Claims about the repository tools                                       *)

DryRun == script \in ToolScripts /\ tool.args.dry_run

\* C21: with --dry-run the repository tools change nothing on disk:
\* export_data_repo copies no file and deletes none, also with --clean, and
\* scaffold and sync_shared create no directory and write no file, so at
\* every point of a dry run the files, their contents and the directories
\* are those the run started from.
C21_DryRunChangesNothing ==
    DryRun => disk = tool.before.files /\ dirs = tool.before.folders

\* A dry run of export_data_repo with --clean has finished where there was a
\* file to copy and a stale file to remove, or a dry run of scaffold or
\* sync_shared has finished whose destinations did not all exist.
C21_Witness ==
    /\ DryRun
    /\ pc = "done"
    /\ IF script = "export_data_repo"
       THEN /\ tool.args.clean
            /\ tool.expected_public # {}
            /\ \E p \in DOMAIN disk :
                  /\ IsUnder(data_repo \o <<"public", "data">>, p)
                  /\ basename(p) # ".gitkeep"
                  /\ p \notin tool.expected_public
       ELSE \E i \in DOMAIN tool.plan : ~exists(disk, dirs, tool.plan[i].dest)

Managed(path) ==
    \E k \in DOMAIN ManagedPrefixes : IsUnder(data_repo \o ManagedPrefixes[k], path)

CleanRunDone == script = "export_data_repo" /\ pc = "done" /\ tool.args.clean

\* After the run a managed file exists iff it was copied in this run or is
\* named .gitkeep.
OnlyProducedFiles ==
    \A p \in DOMAIN tool.before.files \cup DOMAIN disk :
        Managed(p) => (p \in DOMAIN disk <=> p \in tool.copied \/ basename(p) = ".gitkeep")

\* The files the run started with are all still there.
NothingDeleted == DOMAIN tool.before.files \subseteq DOMAIN disk

\* C22 as stated: after any run with --clean a file exists under a managed
\* prefix iff it was copied from the source in this run or is named
\* .gitkeep, and after a run without --clean no file is gone.
C22_Original ==
    /\ CleanRunDone => OnlyProducedFiles
    /\ script = "export_data_repo" /\ ~tool.args.clean => NothingDeleted

C22_AfterClean ==
    /\ CleanRunDone /\ ~tool.args.dry_run =>
          /\ OnlyProducedFiles
          /\ \A p \in DOMAIN tool.before.files :
                ~Managed(p) => p \in DOMAIN disk /\ disk[p] = tool.before.files[p]
    /\ script = "export_data_repo" /\ (~tool.args.clean \/ tool.args.dry_run) => NothingDeleted

C22_NoUnlink ==
    script = "export_data_repo" /\ (~tool.args.clean \/ tool.args.dry_run)
        => DOMAIN disk \subseteq DOMAIN disk'

\* C22: after a run of export_data_repo with --clean and without --dry-run a
\* file exists under a managed prefix iff it was copied from the source in
\* this run or is named .gitkeep, and the files outside the managed prefixes
\* are untouched; without --clean, or with --dry-run, no step of the run
\* removes a file.
C22_CleanRemovesStale == [](C22_AfterClean) /\ [][C22_NoUnlink]_vars

\* A run with --clean copied a file, removed a stale one and kept a .gitkeep.
C22_Witness ==
    /\ CleanRunDone
    /\ ~tool.args.dry_run
    /\ tool.copied # {}
    /\ \E p \in DOMAIN tool.before.files : Managed(p) /\ p \notin DOMAIN disk
    /\ \E p \in DOMAIN disk : Managed(p) /\ basename(p) = ".gitkeep"

NoForce == script \in BlogScripts /\ ~tool.args.force

\* Every file the run started with is there with the content it had.
OriginalContentKept ==
    \A p \in DOMAIN tool.before.files : p \in DOMAIN disk /\ disk[p] = tool.before.files[p]

\* The statement at hand writes, by safe_write_text or safe_copy_file, to a
\* destination that exists.
WritesToExisting ==
    /\ BlogRunning
    /\ ~tool.args.dry_run
    /\ \/ ToolStatement.op \in {"copy", "sync"}
       \/ ToolStatement.op = "copy_item" /\ ~is_dir(dirs, ToolStatement.src)
    /\ exists(disk, dirs, ToolStatement.dest)

C23_RefusesExisting ==
    NoForce /\ WritesToExisting =>
        /\ pc' = "raised"
        /\ tool'.error = "FileExistsError"
        /\ disk' = disk

\* C23: without --force the blog-split tools overwrite no existing file: a
\* write by safe_write_text or safe_copy_file to a destination that exists
\* raises FileExistsError and leaves every file as it was, and at every
\* point of a run of scaffold or sync_shared without --force, completed or
\* aborted, each file that existed before the run has its original content.
C23_NoOverwriteWithoutForce ==
    [](NoForce => OriginalContentKept) /\ [][C23_RefusesExisting]_vars

\* A run without --force wrote a new file and then stopped with
\* FileExistsError at a destination that existed before the run.
C23_Witness ==
    /\ NoForce
    /\ pc = "raised"
    /\ tool.error = "FileExistsError"
    /\ DOMAIN disk # DOMAIN tool.before.files
    /\ ToolStatement.dest \in DOMAIN tool.before.files

----------------------------------------------------------------------------
(* Claims about the per-municipality series and the category summaries     *)

\* The municipality an index entry names: the digits of its code up to a
\* decimal point.
CodeNumber(code) ==
    LET dots == {i \in DOMAIN code : code[i] = "."}
    IN  DigitsValue(SubSeq(code, 1, IF dots = {} THEN Len(code) ELSE SetMin(dots) - 1))

Measures(r) == [y |-> r.y, mo |-> r.mo, ren |-> r.ren]

\* The rows of the monthly table for one municipality after 2018.
RowsAfter2018(m) == {Measures(df[i]) : i \in {j \in DOMAIN df : df[j].m = m /\ df[j].y > 2018}}

SeriesSound(entry) ==
    LET series == output_files.municipality[entry.file]
        years == {series[i].y : i \in DOMAIN series}
    IN  /\ \A i \in DOMAIN series : series[i].y > 2018
        /\ {Measures(series[i]) : i \in DOMAIN series} = RowsAfter2018(CodeNumber(entry.code))
        /\ Len(series) = Cardinality(RowsAfter2018(CodeNumber(entry.code)))
        /\ \A i \in 1..(Len(series) - 1) :
              \/ series[i].y < series[i + 1].y
              \/ series[i].y = series[i + 1].y /\ series[i].mo <= series[i + 1].mo
        /\ Len(entry.years) = 2
        /\ entry.years[1] \in years /\ \A y \in years : entry.years[1] <= y
        /\ entry.years[2] \in years /\ \A y \in years : y <= entry.years[2]

\* C24: every per-municipality monthly series written by process_data or by
\* postprocess_vergunningen holds only rows with year > 2018, holds all such
\* rows of its municipality, is sorted ascending by (year, month), and its
\* municipality_index entry has years = [minimum year, maximum year] of the
\* series; when the run is done every municipality with a row after 2018 has
\* one series and one entry in the index written.
C24_MunicipalitySeries ==
    script \in MonthlyScripts =>
        LET index == monthly.municipality_index
        IN  /\ \A i \in DOMAIN index :
                  /\ index[i].file \in DOMAIN output_files.municipality
                  /\ SeriesSound(index[i])
            /\ DOMAIN output_files.municipality = {index[i].file : i \in DOMAIN index}
            /\ pc = "done" =>
                  /\ output_files.municipality_index = index
                  /\ \A i, j \in DOMAIN index : index[i].file = index[j].file => i = j
                  /\ \A r \in DOMAIN df :
                        df[r].y > 2018 =>
                            \E i \in DOMAIN index : CodeNumber(index[i].code) = df[r].m

\* A finished run whose table held a row of 2018 and, for one municipality,
\* rows of two later years that were not in ascending order.
C24_Witness ==
    /\ script \in MonthlyScripts
    /\ pc = "done"
    /\ \E i \in DOMAIN df : df[i].y = 2018
    /\ \E i, j \in DOMAIN df : i < j /\ df[i].m = df[j].m /\ df[i].y > df[j].y /\ df[j].y > 2018
    /\ \E i \in DOMAIN output_files.municipality_index :
          output_files.municipality_index[i].years[1] < output_files.municipality_index[i].years[2]

\* The keys of the summary in the order of all_cats.
AllCategories == CategoryIds \o <<"overige">>

\* C25: every category the policy-domain classifier can return, that is
\* every value of POLICY_DOMAIN_MAPPING and the default "overige", is a key
\* of the summary of summarize_projects_by_category; for the projects
\* process_projects returned every category of every project is a key, the
\* project_count values of all categories sum to the number of projects and
\* the total_amount values of all categories sum to the overall total.
C25_NoProjectLeftOut ==
    Saved =>
        LET summaries == output_files.metadata.categories
        IN  /\ \A key \in DOMAIN POLICY_DOMAIN_MAPPING :
                  POLICY_DOMAIN_MAPPING[key] \in DOMAIN summaries
            /\ "overige" \in DOMAIN summaries
            /\ \A i \in Indices(projects) :
                  \A k \in Indices(projects[i].categories) :
                      projects[i].categories[k] \in DOMAIN summaries
            /\ DOMAIN summaries = {AllCategories[i] : i \in Indices(AllCategories)}
            /\ SeqSum(List([i \in Indices(AllCategories) |->
                               summaries[AllCategories[i]].project_count]))
                 = Len(projects)
            /\ output_files.metadata.total_projects = Len(projects)
            /\ SeqSum(List([i \in Indices(AllCategories) |->
                               summaries[AllCategories[i]].total_amount]))
                 = output_files.metadata.total_amount

\* Two projects were summarized, one classified by the mapping and one that
\* fell to the default category.
C25_Witness ==
    /\ Saved
    /\ Len(projects) = 2
    /\ output_files.metadata.categories["overige"].project_count = 1
    /\ output_files.metadata.categories["overige"].total_amount > 0
    /\ output_files.metadata.total_amount
         > output_files.metadata.categories["overige"].total_amount

============================================================================
